---------------------------- MODULE Spec2Model ----------------------------
(***************************************************************************)
(* A model of the STE-AGRO-RAG ingestion core: the text normalizer         *)
(* (src/src/extractor.py clean_text), the three-layer extraction cascade   *)
(* (src/src/extractor.py extract_pdf) and the section-aware sliding-window *)
(* chunker (src/src/chunker.py).                                           *)
(*                                                                         *)
(* A text is a sequence of characters; a character is a one-character      *)
(* string, or a bracketed code point such as "<00>" for a character that   *)
(* has no TLA+ string escape.                                              *)
(***************************************************************************)
EXTENDS Integers, Sequences, FiniteSets, TLC

\* ------------------------------------------------------------------------
\* Characters and the character classes of Python's re and str
\* ------------------------------------------------------------------------

NUL == "<00>"      \* U+0000
SOH == "<01>"      \* U+0001
DEL == "<7F>"      \* U+007F
NBSP == "<A0>"     \* U+00A0 no-break space: \s and str.strip() whitespace
EACUTE == "<E9>"   \* U+00E9, the composition of "e" and U+0301
EACUTE_CAP == "<C9>" \* U+00C9, the capital of U+00E9
ACUTE == "<0301>"  \* U+0301 combining acute accent
COPY == "<A9>"     \* U+00A9 copyright sign
EMDASH == "<2014>" \* U+2014
ENDASH == "<2013>" \* U+2013

\* [\x00-\x08\x0b\x0c\x0e-\x1f\x7f-\x9f], as far as the model's characters go
ControlChars == {NUL, SOH, "\f", DEL}

\* \d
DigitChars == {"0", "1", "2", "3", "4", "5", "6", "7", "8", "9"}

LowerChars ==
    {"a", "b", "c", "d", "e", "f", "g", "h", "i", "j", "k", "l", "m",
     "n", "o", "p", "q", "r", "s", "t", "u", "v", "w", "x", "y", "z", EACUTE}

UpperOf ==
    [c \in {"A", "B", "C", "D", "E", "F", "G", "H", "I", "J", "K", "L", "M",
            "N", "O", "P", "Q", "R", "S", "T", "U", "V", "W", "X", "Y", "Z"} |->
       CASE c = "A" -> "a" [] c = "B" -> "b" [] c = "C" -> "c" [] c = "D" -> "d"
         [] c = "E" -> "e" [] c = "F" -> "f" [] c = "G" -> "g" [] c = "H" -> "h"
         [] c = "I" -> "i" [] c = "J" -> "j" [] c = "K" -> "k" [] c = "L" -> "l"
         [] c = "M" -> "m" [] c = "N" -> "n" [] c = "O" -> "o" [] c = "P" -> "p"
         [] c = "Q" -> "q" [] c = "R" -> "r" [] c = "S" -> "s" [] c = "T" -> "t"
         [] c = "U" -> "u" [] c = "V" -> "v" [] c = "W" -> "w" [] c = "X" -> "x"
         [] c = "Y" -> "y" [] c = "Z" -> "z"]

\* the case folding of an (?i) match
Lower(c) ==
    IF c \in DOMAIN UpperOf THEN UpperOf[c]
    ELSE IF c = EACUTE_CAP THEN EACUTE ELSE c

\* \w
WordChars == LowerChars \cup DOMAIN UpperOf \cup DigitChars \cup {"_", EACUTE_CAP}

\* \s, and the characters str.strip() removes
SpaceChars == {" ", "\t", "\n", "\r", "\f", NBSP}

\* [-—–]
DashChars == {"-", EMDASH, ENDASH}

\* ------------------------------------------------------------------------
\* Regular-expression helpers: positions are 1-based, a match length of 0
\* means "no match at this position" (no pattern below matches the empty
\* string)
\* ------------------------------------------------------------------------

\* Recursion over a text goes by blocks of 16 characters, which keeps the
\* evaluation shallow on texts of a few hundred characters.

Least(S) == CHOOSE k \in S : \A j \in S : k <= j

Greatest(S) == CHOOSE k \in S : \A j \in S : j <= k

RECURSIVE RunLen(_, _, _)
\* the number of consecutive characters of s from position i that are in S
RunLen(s, i, S) ==
    IF i > Len(s) \/ i < 1 THEN 0
    ELSE LET hi == IF i + 15 < Len(s) THEN i + 15 ELSE Len(s)
             stop == {k \in i..hi : s[k] \notin S}
         IN  IF stop # {} THEN Least(stop) - i
             ELSE IF hi = Len(s) THEN hi - i + 1
             ELSE 16 + RunLen(s, i + 16, S)

IsWordAt(s, i) == i >= 1 /\ i <= Len(s) /\ s[i] \in WordChars

\* \b between positions i-1 and i
WordBoundary(s, i) == IsWordAt(s, i - 1) # IsWordAt(s, i)

\* lit (lower case) matches s at i, ignoring case
LitAt(s, i, lit) ==
    /\ i + Len(lit) - 1 <= Len(s)
    /\ \A k \in 1..Len(lit) : Lower(s[i + k - 1]) = lit[k]

RECURSIVE ScanTo(_, _, _, _, _)
\* Scan for the matches that start at or before hi: <<the text produced, the
\* position reached>>
ScanTo(s, ml, repl, i, hi) ==
    IF i > hi THEN <<<<>>, i>>
    ELSE LET rest == ScanTo(s, ml, repl, i + (IF ml[i] > 0 THEN ml[i] ELSE 1), hi)
         IN  <<(IF ml[i] > 0 THEN repl ELSE <<s[i]>>) \o rest[1], rest[2]>>

RECURSIVE Scan(_, _, _, _)
\* re.sub: the leftmost non-overlapping matches, whose lengths ml gives per
\* start position, each replaced by repl
Scan(s, ml, repl, i) ==
    IF i > Len(s) THEN <<>>
    ELSE LET part == ScanTo(s, ml, repl, i, IF i + 15 < Len(s) THEN i + 15 ELSE Len(s))
         IN  part[1] \o Scan(s, ml, repl, part[2])

ReSub(M(_, _), repl, s) == Scan(s, [i \in 1..Len(s) |-> M(s, i)], repl, 1)

\* ------------------------------------------------------------------------
\* clean_text (src/src/extractor.py)
\* ------------------------------------------------------------------------

\* "e" directly followed by the combining acute accent
MatchCompose(s, i) ==
    IF s[i] = "e" /\ i < Len(s) /\ s[i + 1] = ACUTE THEN 2 ELSE 0

\* unicodedata.normalize('NFC', text) on the model's characters: "e" directly
\* followed by the combining acute accent composes to U+00E9; no other pair
\* of the characters the model's texts are made of composes ("x" has no
\* precomposed accented form)
NFC(s) == ReSub(MatchCompose, <<EACUTE>>, s)

\* re.sub(r'[\x00-\x08\x0b\x0c\x0e-\x1f\x7f-\x9f]', '', text)
StripControl(s) == SelectSeq(s, LAMBDA c : c \notin ControlChars)

\* (?i)\bpage\s+\d+\b
MatchPage(s, i) ==
    LET ws == RunLen(s, i + 4, SpaceChars)
        ds == RunLen(s, i + 4 + ws, DigitChars)
        e  == i + 4 + ws + ds
    IN  IF /\ WordBoundary(s, i)
           /\ LitAt(s, i, <<"p", "a", "g", "e">>)
           /\ ws >= 1
           /\ ds >= 1
           /\ WordBoundary(s, e)
        THEN e - i ELSE 0

\* [-—–]\s*\d+\s*[-—–]
MatchDashNum(s, i) ==
    LET ws1 == RunLen(s, i + 1, SpaceChars)
        ds  == RunLen(s, i + 1 + ws1, DigitChars)
        ws2 == RunLen(s, i + 1 + ws1 + ds, SpaceChars)
        e   == i + 1 + ws1 + ds + ws2
    IN  IF /\ s[i] \in DashChars
           /\ ds >= 1
           /\ e <= Len(s)
           /\ s[e] \in DashChars
        THEN e + 1 - i ELSE 0

\* \b\d+\s*/\s*\d+\b
MatchFraction(s, i) ==
    LET d1  == RunLen(s, i, DigitChars)
        ws1 == RunLen(s, i + d1, SpaceChars)
        p   == i + d1 + ws1
        ws2 == RunLen(s, p + 1, SpaceChars)
        d2  == RunLen(s, p + 1 + ws2, DigitChars)
        e   == p + 1 + ws2 + d2
    IN  IF /\ WordBoundary(s, i)
           /\ d1 >= 1
           /\ p <= Len(s)
           /\ s[p] = "/"
           /\ d2 >= 1
           /\ WordBoundary(s, e)
        THEN e - i ELSE 0

\* ^ under (?m)
LineStart(s, i) == i = 1 \/ s[i - 1] = "\n"

\* $ under (?m)
LineEnd(s, i) == i = Len(s) + 1 \/ (i <= Len(s) /\ s[i] = "\n")

\* (?m)^\s*\d{1,3}\s*$ : both \s* may run over line breaks; the trailing \s*
\* backtracks to the last position at which $ holds
MatchLoneNumber(s, i) ==
    LET ws1 == RunLen(s, i, SpaceChars)
        ds  == RunLen(s, i + ws1, DigitChars)
        d   == i + ws1 + ds
        ws2 == RunLen(s, d, SpaceChars)
        ends == {e \in d..(d + ws2) : LineEnd(s, e)}
    IN  IF /\ LineStart(s, i)
           /\ ds >= 1
           /\ ds <= 3
           /\ ends # {}
        THEN (CHOOSE e \in ends : \A f \in ends : f <= e) - i ELSE 0

Confidential == <<"c", "o", "n", "f", "i", "d", "e", "n", "t", "i", "a", "l">>

Proprietary == <<"p", "r", "o", "p", "r", "i", "e", "t", "a", "r", "y">>

AllRightsReserved ==
    <<"a", "l", "l", " ", "r", "i", "g", "h", "t", "s", " ",
      "r", "e", "s", "e", "r", "v", "e", "d">>

\* ©.*?\d{4} : the shortest stretch without a line break that ends in four
\* digits
MatchCopyright(s, i) ==
    LET line == RunLen(s, i + 1, {s[k] : k \in 1..Len(s)} \ {"\n"})
        ends == {j \in (i + 1)..(i + 1 + line - 4) :
                    \A k \in 0..3 : s[j + k] \in DigitChars}
    IN  IF s[i] = COPY /\ ends # {}
        THEN (CHOOSE j \in ends : \A k \in ends : j <= k) + 4 - i ELSE 0

\* (?i)(confidential|proprietary|all rights reserved|©.*?\d{4})
MatchBoilerplate(s, i) ==
    IF LitAt(s, i, Confidential) THEN Len(Confidential)
    ELSE IF LitAt(s, i, Proprietary) THEN Len(Proprietary)
    ELSE IF LitAt(s, i, AllRightsReserved) THEN Len(AllRightsReserved)
    ELSE MatchCopyright(s, i)

\* [ \t]+
MatchBlanks(s, i) == RunLen(s, i, {" ", "\t"})

BlanksNotCollapsed(s) == [i \in 1..Len(s) |-> IF s[i] = "\t" THEN " " ELSE s[i]]

\* re.sub(r'[ \t]+', ' ', text)
CollapseSpaces(s) == ReSub(MatchBlanks, <<" ">>, s)

\* \n{3,}
MatchNewlines(s, i) ==
    LET n == RunLen(s, i, {"\n"}) IN IF n >= 3 THEN n ELSE 0

\* re.sub(r'\n{3,}', '\n\n', text)
CollapseNewlines(s) == ReSub(MatchNewlines, <<"\n", "\n">>, s)

\* str.strip()
Strip(s) ==
    LET ink == {k \in 1..Len(s) : s[k] \notin SpaceChars}
    IN  IF ink = {} THEN <<>> ELSE SubSeq(s, Least(ink), Greatest(ink))

RECURSIVE StripLines(_)
\* '\n'.join(line.strip() for line in text.split('\n'))
StripLines(s) ==
    LET n == RunLen(s, 1, {s[k] : k \in 1..Len(s)} \ {"\n"})
    IN  IF n = Len(s) THEN Strip(s)
        ELSE Strip(SubSeq(s, 1, n)) \o <<"\n">> \o StripLines(SubSeq(s, n + 2, Len(s)))

clean_text(text) ==
    IF text = <<>> THEN <<>>
    ELSE LET t1 == NFC(text)
             t2 == StripControl(t1)
             t3 == ReSub(MatchPage, <<>>, t2)
             t4 == ReSub(MatchDashNum, <<>>, t3)
             t5 == ReSub(MatchFraction, <<>>, t4)
             t6 == ReSub(MatchLoneNumber, <<>>, t5)
             t7 == ReSub(MatchBoilerplate, <<>>, t6)
             t8 == CollapseSpaces(t7)
             t9 == CollapseNewlines(t8)
         IN  Strip(StripLines(t9))

\* ------------------------------------------------------------------------
\* split_into_sections (src/src/chunker.py)
\* ------------------------------------------------------------------------

\* The header patterns, in the order of the alternation; each is ^lit
\* followed by \s*$ ("space") or by .*$ ("any"), under the flags (?im), which
\* hold for the whole alternation (interpreters from Python 3.11 on reject
\* the pattern, whose flags are not at its start; the model is of the
\* interpreters that accept it). "Dosages? Recommandés?.*" is given by its two
\* spellings of "Dosages?": the optional final s falls under .* either way.
section_patterns ==
    <<
      \* ^Résumé Général\s*$
      [lit |-> <<"r", EACUTE, "s", "u", "m", EACUTE, " ", "g", EACUTE, "n", EACUTE, "r", "a", "l">>,
       rest |-> "space"],
      \* ^Propriétés Principales\s*$
      [lit |-> <<"p", "r", "o", "p", "r", "i", EACUTE, "t", EACUTE, "s", " ", "p", "r", "i",
                "n", "c", "i", "p", "a", "l", "e", "s">>,
       rest |-> "space"],
      \* ^Points Importants\s*$
      [lit |-> <<"p", "o", "i", "n", "t", "s", " ", "i", "m", "p", "o", "r", "t", "a",
                "n", "t", "s">>,
       rest |-> "space"],
      \* ^Dosages? Recommandés?.*$
      [lit |-> <<"d", "o", "s", "a", "g", "e", " ", "r", "e", "c", "o", "m", "m", "a",
                "n", "d", EACUTE>>,
       rest |-> "any"],
      \* ^Dosages? Recommandés?.*$
      [lit |-> <<"d", "o", "s", "a", "g", "e", "s", " ", "r", "e", "c", "o", "m", "m",
                "a", "n", "d", EACUTE>>,
       rest |-> "any"],
      \* ^Spécifications Techniques\s*$
      [lit |-> <<"s", "p", EACUTE, "c", "i", "f", "i", "c", "a", "t", "i", "o", "n", "s",
                " ", "t", "e", "c", "h", "n", "i", "q", "u", "e", "s">>,
       rest |-> "space"],
      \* ^Conditionnement.*$
      [lit |-> <<"c", "o", "n", "d", "i", "t", "i", "o", "n", "n", "e", "m", "e", "n",
                "t">>,
       rest |-> "any"],
      \* ^Mode d'Emploi.*$
      [lit |-> <<"m", "o", "d", "e", " ", "d", "'", "e", "m", "p", "l", "o", "i">>,
       rest |-> "any"],
      \* ^Avantages et Limitations\s*$
      [lit |-> <<"a", "v", "a", "n", "t", "a", "g", "e", "s", " ", "e", "t", " ", "l",
                "i", "m", "i", "t", "a", "t", "i", "o", "n", "s">>,
       rest |-> "space"],
      \* ^Réglementation\s*$
      [lit |-> <<"r", EACUTE, "g", "l", "e", "m", "e", "n", "t", "a", "t", "i", "o", "n">>,
       rest |-> "space"],
      \* ^Stockage et Sécurité\s*$
      [lit |-> <<"s", "t", "o", "c", "k", "a", "g", "e", " ", "e", "t", " ", "s", EACUTE,
                "c", "u", "r", "i", "t", EACUTE>>,
       rest |-> "space"],
      \* ^Product Description\s*$
      [lit |-> <<"p", "r", "o", "d", "u", "c", "t", " ", "d", "e", "s", "c", "r", "i",
                "p", "t", "i", "o", "n">>,
       rest |-> "space"],
      \* ^Application\s*$
      [lit |-> <<"a", "p", "p", "l", "i", "c", "a", "t", "i", "o", "n">>,
       rest |-> "space"],
      \* ^Usage\s*$
      [lit |-> <<"u", "s", "a", "g", "e">>,
       rest |-> "space"],
      \* ^Packaging.*$
      [lit |-> <<"p", "a", "c", "k", "a", "g", "i", "n", "g">>,
       rest |-> "any"],
      \* ^Storage.*$
      [lit |-> <<"s", "t", "o", "r", "a", "g", "e">>,
       rest |-> "any"],
      \* ^Technical Data.*$
      [lit |-> <<"t", "e", "c", "h", "n", "i", "c", "a", "l", " ", "d", "a", "t", "a">>,
       rest |-> "any"]
    >>

\* the length of the match of pattern pat at i, 0 if it does not match
MatchPattern(s, i, pat) ==
    IF ~LitAt(s, i, pat.lit) THEN 0
    ELSE LET d == i + Len(pat.lit)
         IN  IF pat.rest = "any"
             THEN d + RunLen(s, d, {s[k] : k \in 1..Len(s)} \ {"\n"}) - i
             ELSE LET ends == {e \in d..(d + RunLen(s, d, SpaceChars)) : LineEnd(s, e)}
                  IN  IF ends = {} THEN 0 ELSE Greatest(ends) - i

\* combined_pattern at i: the first alternative that matches
MatchHeader(s, i) ==
    LET hits == {k \in 1..Len(section_patterns) :
                    MatchPattern(s, i, section_patterns[k]) > 0}
    IN  IF LineStart(s, i) /\ hits # {}
        THEN MatchPattern(s, i, section_patterns[Least(hits)]) ELSE 0

RECURSIVE PartsFrom(_, _, _)
PartsFrom(s, ml, i) ==
    LET heads == {h \in i..Len(s) : ml[h] > 0}
    IN  IF heads = {} THEN <<SubSeq(s, i, Len(s))>>
        ELSE LET h == Least(heads)
             IN  <<SubSeq(s, i, h - 1), SubSeq(s, h, h + ml[h] - 1)>>
                     \o PartsFrom(s, ml, h + ml[h])

\* re.split(f"({combined_pattern})", text): [text1, sep1, text2, sep2, ...]
re_split(s) == PartsFrom(s, [i \in 1..Len(s) |-> MatchHeader(s, i)], 1)

HeaderDropped(part) == <<>>

\* current_section = part: a header starts the new section
HeaderStarts(part) == part

FlushUnstripped(sections, current_section) ==
    IF Strip(current_section) # <<>>
    THEN Append(sections, current_section) ELSE sections

\* sections.append(current_section.strip()) if current_section.strip()
Flush(sections, current_section) ==
    IF Strip(current_section) # <<>>
    THEN Append(sections, Strip(current_section)) ELSE sections

RECURSIVE SectionLoop(_, _, _, _)
\* the loop over parts (i is 1-based: the headers are at the even places) and
\* the statements after it
SectionLoop(parts, i, current_section, sections) ==
    IF i > Len(parts) THEN Flush(sections, current_section)
    ELSE IF i % 2 = 0
         THEN SectionLoop(parts, i + 1, HeaderStarts(parts[i]),
                          Flush(sections, current_section))
         ELSE SectionLoop(parts, i + 1, current_section \o parts[i], sections)

split_into_sections(text) ==
    IF text = <<>> THEN <<>>
    ELSE LET sections == SectionLoop(re_split(text), 1, <<>>, <<>>)
         IN  IF sections # <<>> THEN sections ELSE <<text>>

\* '\n\n'.join(text_parts)
RECURSIVE Join(_)
Join(parts) ==
    IF parts = <<>> THEN <<>>
    ELSE IF Len(parts) = 1 THEN parts[1]
    ELSE parts[1] \o <<"\n", "\n">> \o Join(Tail(parts))

\* ------------------------------------------------------------------------
\* State
\* ------------------------------------------------------------------------

VARIABLES
    \* extract_pdf and the strategy it is running
    pc,          \* "idle", "call", "open", "loop", "check", "done", "raised"
    layer,       \* the strategy running or last run: 1 pdfplumber, 2 PyMuPDF, 3 OCR
    npages,      \* the number of pages of the document
    page_num,    \* pages the running strategy has gone through
    text_parts,  \* the running strategy's text_parts
    text,        \* extract_pdf's variable text
    result,      \* what extract_pdf returned
    calls,       \* history: the strategies invoked, in order
    outs,        \* history: what each invoked strategy returned
    errs,        \* history: <<layer, where, page>> of every exception raised
    renders,     \* history: page -> number of get_pixmap calls (OCR)
    recogs,      \* history: page -> number of image_to_string calls (OCR)
    ocr_kept,    \* history: the pages whose recognised text OCR appended
    \* clean_text applied once and twice to an input
    ct_stage,    \* "idle", "raw", "once", "twice"
    ct_in,
    ct_out,
    ct_out2,
    \* split_into_sections applied to an input
    ss_stage,    \* "idle", "call", "split", "raised"
    ss_text,
    ss_sections, \* what split_into_sections returned
    \* chunk_text; a word is <<section, sentence, place in the sentence>>
    ch_pc,       \* "idle", "call", "section", "sentence", "done", "raised"
    ch_text,     \* the text: 0 for a section header, n for a sentence of n words
    chunk_size,
    overlap,
    min_words,
    sections,    \* for each section, what split_into_sentences returns for it
    sec_i,       \* sections the outer loop has taken
    sentences,
    sent_i,      \* sentences the inner loop has taken
    section_chunks,
    current_chunk_sentences,
    current_word_count,
    all_chunks,
    ch_result,   \* what chunk_text returned
    carry_in,    \* history: the words carried over into the buffer
    closes,      \* history: every buffer closed, returned or discarded
    \* semantic_search and format_results
    se_pc,       \* "idle", "call", "embed", "connect", "execute", "rank",
                 \* "done", "shown", "raised"
    question,
    top_k,
    table,       \* the ids of the rows of the table embeddings
    query_vector,
    raw_results,
    se_result,   \* what semantic_search returned
    formatted,   \* what format_results returned for se_result
    displayed,   \* history: fragment_display of each result
    embed_calls, \* history: the calls of embed_query
    store_calls, \* history: the calls of search_similar
    se_failed,   \* history: the failures of the embedder and the store
    \* ingest_all_pdfs, run after run on one store
    in_pc,       \* "idle", "call", "discover", "extract", "chunk", "embed",
                 \* "insert", "report", "done", "raised"
    run,         \* the number of the run
    dirs,        \* run -> the sources in the directory at that run
    pdf_files,
    doc_id,      \* the place in pdf_files of the document in hand
    chunks,      \* the number of chunks of the document in hand
    embeddings,  \* the number of vectors of the document in hand
    pdfs_processed,
    pdfs_skipped,
    failed_pdfs,
    total_chunks_inserted,
    summary,     \* what ingest_all_pdfs returned
    failed_file, \* the sources listed in failed_pdfs.txt
    db_rows,     \* the rows of the table embeddings
    attempts,    \* history: the documents the run has taken in hand
    inserted,    \* history: <<run, source>> of every insert committed
    classified   \* history: how the work on every document ended

exVars ==
    <<pc, layer, npages, page_num, text_parts, text, result, calls, outs, errs,
      renders, recogs, ocr_kept>>

ctVars == <<ct_stage, ct_in, ct_out, ct_out2>>

ssVars == <<ss_stage, ss_text, ss_sections>>

chVars ==
    <<ch_pc, ch_text, chunk_size, overlap, min_words, sections, sec_i, sentences,
      sent_i, section_chunks, current_chunk_sentences, current_word_count,
      all_chunks, ch_result, carry_in, closes>>

seVars ==
    <<se_pc, question, top_k, table, query_vector, raw_results, se_result,
      formatted, displayed, embed_calls, store_calls, se_failed>>

inVars ==
    <<in_pc, run, dirs, pdf_files, doc_id, chunks, embeddings, pdfs_processed,
      pdfs_skipped, failed_pdfs, total_chunks_inserted, summary, failed_file,
      db_rows, attempts, inserted, classified>>

vars == <<exVars, ctVars, ssVars, chVars, seVars, inVars>>

\* ------------------------------------------------------------------------
\* Bounds and inputs
\* ------------------------------------------------------------------------

MaxPages == 2

MaxBlankLen == 5

MaxLineLen == 6

MaxAccentLen == 3

\* all texts of at most n characters of alphabet A
Texts(A, n) == UNION {[1..k -> A] : k \in 0..n}

BlankAlphabet == {NUL, " ", "\t", "\n", "x"}

LineAlphabet == {" ", "\n", "x"}

AccentAlphabet == {"e", ACUTE, NUL}

CleanInputs ==
    Texts(BlankAlphabet, MaxBlankLen) \cup Texts(LineAlphabet, MaxLineLen)
        \cup Texts(AccentAlphabet, MaxAccentLen)

\* what page.extract_text() of pdfplumber returns for a page with a text layer
PlumberPage ==
    <<"P", "a", "g", "e", " ", "3", "\n", "B", "V", "Z", "y", "m",
      "e", " ", "A", "F", "1", "1", "0", " ", ":", " ", " ", "d",
      "o", "s", "a", "g", "e", " ", "5", "-", "2", "0", " ", "p",
      "p", "m", "\n", "\n", "\n", "\n", "C", "o", "n", "f", "i", "d",
      "e", "n", "t", "i", "a", "l", " ", "s", "t", "o", "c", "k",
      "e", "r", " ", "a", "u", " ", "s", "e", "c", " ", "e", "t",
      " ", "a", "u", " ", "f", "r", "a", "i", "s", ".">>

\* what page.get_text("text") of PyMuPDF returns for such a page
MuPdfPage ==
    <<"B", "V", "Z", "y", "m", "e", " ", "A", "F", "1", "1", "0",
      "\t", "d", "o", "s", "a", "g", "e", " ", "r", "e", "c", "o",
      "m", "m", "a", "n", "d", "e", " ", "5", " ", "-", " ", "2",
      "0", " ", "p", "p", "m", " ", "s", "u", "r", " ", "f", "a",
      "r", "i", "n", "e", "\n", "-", " ", "2", " ", "-", "\n", "S",
      "t", "o", "c", "k", "a", "g", "e", " ", "a", "u", " ", "s",
      "e", "c", ",", " ", "1", "2", " ", "m", "o", "i", "s", ".",
      NUL>>

\* what pytesseract.image_to_string returns for a scanned page
OcrPage ==
    <<"B", "V", "Z", "y", "r", "n", "e", " ", "A", "F", "1", "1",
      "O", " ", "d", "o", "s", "a", "g", "e", " ", "5", "-", "2",
      "0", " ", "p", "p", "r", "n", "\n", " ", "1", "/", "2", " ",
      "\n", "s", "t", "o", "c", "k", "e", "r", " ", "a", "u", " ",
      "s", "e", "c", " ", "e", "t", " ", "a", "u", " ", "f", "r",
      "a", "i", "s", " ">>

\* ... and for a page on which it recognises nothing
OcrBlank == <<" ", "\n">>

PageText(l) == CASE l = 1 -> PlumberPage [] l = 2 -> MuPdfPage [] l = 3 -> OcrPage

\* ------------------------------------------------------------------------
\* extract_pdf (src/src/extractor.py): the three-layer cascade
\* ------------------------------------------------------------------------

MIN_CHARS_THRESHOLD == 100

SufficientIfNonEmpty(t) == Len(t) > 0

\* len(text) >= MIN_CHARS_THRESHOLD
Sufficient(t) == Len(t) >= MIN_CHARS_THRESHOLD

HandlerOpenUnprotected(l, where) ==
    IF where = "open" THEN "none"
    ELSE IF l = 3 /\ where \in {"render", "recognize"} THEN "page" ELSE "strategy"

HandlerNoPageTry(l, where) == "strategy"

\* the except clause that catches an exception raised at `where` in strategy
\* l: the per-page handler of the OCR loop ("page"), the strategy's own
\* handler ("strategy"), or none
Handler(l, where) ==
    IF l = 3 /\ where \in {"render", "recognize"} THEN "page" ELSE "strategy"

ctIdle == ct_stage = "idle" /\ ct_in = <<>> /\ ct_out = <<>> /\ ct_out2 = <<>>

ssIdle == ss_stage = "idle" /\ ss_text = <<>> /\ ss_sections = <<>>

chIdle ==
    /\ ch_pc = "idle"
    /\ ch_text = <<>>
    /\ chunk_size = 0
    /\ overlap = 0
    /\ min_words = 0
    /\ sections = <<>>
    /\ sec_i = 0
    /\ sentences = <<>>
    /\ sent_i = 0
    /\ section_chunks = <<>>
    /\ current_chunk_sentences = <<>>
    /\ current_word_count = 0
    /\ all_chunks = <<>>
    /\ ch_result = <<>>
    /\ carry_in = 0
    /\ closes = <<>>

inIdle ==
    /\ in_pc = "idle"
    /\ run = 0
    /\ dirs = <<>>
    /\ pdf_files = <<>>
    /\ doc_id = 0
    /\ chunks = 0
    /\ embeddings = 0
    /\ pdfs_processed = 0
    /\ pdfs_skipped = 0
    /\ failed_pdfs = <<>>
    /\ total_chunks_inserted = 0
    /\ summary = <<>>
    /\ failed_file = <<>>
    /\ db_rows = <<>>
    /\ attempts = <<>>
    /\ inserted = {}
    /\ classified = {}

seIdle ==
    /\ se_pc = "idle"
    /\ question = <<>>
    /\ top_k = 0
    /\ table = {}
    /\ query_vector = <<>>
    /\ raw_results = <<>>
    /\ se_result = <<>>
    /\ formatted = <<>>
    /\ displayed = <<>>
    /\ embed_calls = 0
    /\ store_calls = 0
    /\ se_failed = {}

exIdle ==
    /\ pc = "idle"
    /\ layer = 0
    /\ npages = 0
    /\ page_num = 0
    /\ text_parts = <<>>
    /\ text = <<>>
    /\ result = <<>>
    /\ calls = <<>>
    /\ outs = <<>>
    /\ errs = {}
    /\ renders = <<>>
    /\ recogs = <<>>
    /\ ocr_kept = {}

Init ==
    /\ pc = "call"
    /\ layer = 0
    /\ npages \in 0..MaxPages
    /\ page_num = 0
    /\ text_parts = <<>>
    /\ text = <<>>
    /\ result = <<>>
    /\ calls = <<>>
    /\ outs = <<>>
    /\ errs = {}
    /\ renders = [p \in 1..npages |-> 0]
    /\ recogs = [p \in 1..npages |-> 0]
    /\ ocr_kept = {}
    /\ ctIdle
    /\ ssIdle
    /\ chIdle
    /\ seIdle
    /\ inIdle

\* a strategy returns t to extract_pdf
Return(t) ==
    /\ text' = t
    /\ outs' = Append(outs, t)
    /\ pc' = "check"

\* an exception is raised at `where` in the running strategy
Raise(where) ==
    /\ errs' = errs \cup {<<layer, where, IF where \in {"open", "finish"} THEN 0 ELSE page_num + 1>>}
    /\ CASE Handler(layer, where) = "strategy" ->
              /\ Return(<<>>)
              /\ UNCHANGED <<page_num, text_parts, result>>
         [] Handler(layer, where) = "page" ->
              /\ page_num' = page_num + 1
              /\ UNCHANGED <<pc, text, outs, text_parts, result>>
         [] OTHER ->
              /\ pc' = "raised"
              /\ UNCHANGED <<page_num, text, outs, text_parts, result>>

\* extract_pdf calls the next strategy
Call ==
    /\ pc = "call"
    /\ layer' = layer + 1
    /\ calls' = Append(calls, layer + 1)
    /\ page_num' = 0
    /\ text_parts' = <<>>
    /\ pc' = "open"
    /\ UNCHANGED <<npages, text, result, outs, errs, renders, recogs, ocr_kept, ctVars, ssVars, chVars, seVars, inVars>>

\* pdfplumber.open / fitz.open (and fitz.Matrix)
Open(ok) ==
    /\ pc = "open"
    /\ IF ok
       THEN /\ pc' = "loop"
            /\ UNCHANGED <<page_num, text_parts, text, result, outs, errs>>
       ELSE Raise("open")
    /\ UNCHANGED <<layer, npages, calls, renders, recogs, ocr_kept, ctVars, ssVars, chVars, seVars, inVars>>

\* one pass of the page loop of _extract_with_pdfplumber / _extract_with_pymupdf
ExtractPage(outcome) ==
    /\ pc = "loop"
    /\ layer \in {1, 2}
    /\ page_num < npages
    /\ CASE outcome = "load_error" -> Raise("load")
         [] outcome = "error" -> Raise("extract")
         [] outcome = "none" ->
              /\ page_num' = page_num + 1
              /\ UNCHANGED <<pc, text_parts, text, result, outs, errs>>
         [] outcome = "text" ->
              /\ page_num' = page_num + 1
              /\ text_parts' = Append(text_parts, PageText(layer))
              /\ UNCHANGED <<pc, text, result, outs, errs>>
    /\ UNCHANGED <<layer, npages, calls, renders, recogs, ocr_kept, ctVars, ssVars, chVars, seVars, inVars>>

\* one pass of the page loop of _extract_with_ocr
OcrLoop(outcome) ==
    /\ pc = "loop"
    /\ layer = 3
    /\ page_num < npages
    /\ LET p == page_num + 1
       IN  CASE outcome = "load_error" ->
                  /\ Raise("load")
                  /\ UNCHANGED <<renders, recogs, ocr_kept>>
             [] outcome = "render_error" ->
                  /\ renders' = [renders EXCEPT ![p] = @ + 1]
                  /\ Raise("render")
                  /\ UNCHANGED <<recogs, ocr_kept>>
             [] outcome = "ocr_error" ->
                  /\ renders' = [renders EXCEPT ![p] = @ + 1]
                  /\ recogs' = [recogs EXCEPT ![p] = @ + 1]
                  /\ Raise("recognize")
                  /\ UNCHANGED ocr_kept
             [] outcome \in {"blank", "text"} ->
                  LET page_text == IF outcome = "blank" THEN OcrBlank ELSE OcrPage
                      keep == page_text # <<>> /\ Strip(page_text) # <<>>
                  IN  /\ renders' = [renders EXCEPT ![p] = @ + 1]
                      /\ recogs' = [recogs EXCEPT ![p] = @ + 1]
                      /\ page_num' = page_num + 1
                      /\ text_parts' = IF keep THEN Append(text_parts, page_text)
                                       ELSE text_parts
                      /\ ocr_kept' = IF keep THEN ocr_kept \cup {p} ELSE ocr_kept
                      /\ UNCHANGED <<pc, text, result, outs, errs>>
    /\ UNCHANGED <<layer, npages, calls, ctVars, ssVars, chVars, seVars, inVars>>

\* after the loop: doc.close(), the join and clean_text
Finish(ok) ==
    /\ pc = "loop"
    /\ page_num = npages
    /\ IF ok
       THEN /\ Return(clean_text(Join(text_parts)))
            /\ UNCHANGED <<page_num, text_parts, result, errs>>
       ELSE Raise("finish")
    /\ UNCHANGED <<layer, npages, calls, renders, recogs, ocr_kept, ctVars, ssVars, chVars, seVars, inVars>>

LongestText(t, all) ==
    all[CHOOSE k \in 1..Len(all) : \A j \in 1..Len(all) : Len(all[j]) <= Len(all[k])]

\* return text: the text of the strategy just invoked, whatever the
\* strategies before it returned
ReturnedText(t, all) == t

\* extract_pdf tests the strategy's text against the threshold
Check ==
    /\ pc = "check"
    /\ IF Sufficient(text)
       THEN result' = ReturnedText(text, outs) /\ pc' = "done"
       ELSE IF layer < 3
            THEN pc' = "call" /\ UNCHANGED result
            ELSE /\ result' = (IF text # <<>> THEN ReturnedText(text, outs) ELSE <<>>)
                 /\ pc' = "done"
    /\ UNCHANGED <<layer, npages, page_num, text_parts, text, calls, outs, errs,
                   renders, recogs, ocr_kept, ctVars, ssVars, chVars, seVars, inVars>>

Next ==
    \/ Call
    \/ \E ok \in BOOLEAN : Open(ok)
    \/ \E o \in {"load_error", "error", "none", "text"} : ExtractPage(o)
    \/ \E o \in {"load_error", "render_error", "ocr_error", "blank", "text"} : OcrLoop(o)
    \/ \E ok \in BOOLEAN : Finish(ok)
    \/ Check

Spec == Init /\ [][Next]_vars

\* ------------------------------------------------------------------------
\* clean_text applied to bounded inputs
\* ------------------------------------------------------------------------

InitClean ==
    /\ ct_stage = "raw"
    /\ ct_in \in CleanInputs
    /\ ct_out = <<>>
    /\ ct_out2 = <<>>
    /\ exIdle
    /\ ssIdle
    /\ chIdle
    /\ seIdle
    /\ inIdle

CleanOnce ==
    /\ ct_stage = "raw"
    /\ ct_out' = clean_text(ct_in)
    /\ ct_stage' = "once"
    /\ UNCHANGED <<ct_in, ct_out2, exVars, ssVars, chVars, seVars, inVars>>

CleanTwice ==
    /\ ct_stage = "once"
    /\ ct_out2' = clean_text(ct_out)
    /\ ct_stage' = "twice"
    /\ UNCHANGED <<ct_in, ct_out, exVars, ssVars, chVars, seVars, inVars>>

NextClean == CleanOnce \/ CleanTwice

SpecClean == InitClean /\ [][NextClean]_vars

\* ------------------------------------------------------------------------
\* split_into_sections applied to bounded inputs
\* ------------------------------------------------------------------------

\* the most pieces of an input text
MaxPieces == 5

\* two header lines, body text, and the white space between them
SectionPieces ==
    {<<"U", "s", "a", "g", "e">>, <<"s", "t", "o", "r", "a", "g", "e", ":">>,
     <<"x">>, <<" ">>, <<"\n">>}

RECURSIVE PieceTexts(_)
PieceTexts(n) ==
    IF n = 0 THEN {<<>>}
    ELSE {<<>>} \cup {p \o t : p \in SectionPieces, t \in PieceTexts(n - 1)}

InitSections ==
    /\ ss_stage = "call"
    /\ ss_text \in PieceTexts(MaxPieces)
    /\ ss_sections = <<>>
    /\ exIdle
    /\ ctIdle
    /\ chIdle
    /\ seIdle
    /\ inIdle

\* split_into_sections(ss_text); interpreters that reject the flags inside
\* the pattern raise re.error from re.split
SplitSections(accepted) ==
    /\ ss_stage = "call"
    /\ IF ss_text = <<>> \/ accepted
       THEN /\ ss_sections' = split_into_sections(ss_text)
            /\ ss_stage' = "split"
       ELSE /\ ss_stage' = "raised"
            /\ UNCHANGED ss_sections
    /\ UNCHANGED <<ss_text, exVars, ctVars, chVars, seVars, inVars>>

NextSections == \E accepted \in BOOLEAN : SplitSections(accepted)

SpecSections == InitSections /\ [][NextSections]_vars

\* ------------------------------------------------------------------------
\* chunk_text (src/src/chunker.py)
\* ------------------------------------------------------------------------

\* the most items (section headers and sentences) of a text
MaxItems == 5

\* the word counts of the sentences
SentenceWords == {1, 3}

ChunkSizes == {2, 3}

Overlaps == {0, 1, 2, 12}

MinWords == {1, 2, 3, 12}

\* the words of sentence b of section a, of n words
Words(a, b, n) == [k \in 1..n |-> <<a, b, k>>]

RECURSIVE SentencesFrom(_, _, _)
SentencesFrom(items, i, acc) ==
    IF i > Len(items) THEN acc
    ELSE IF items[i] = 0 THEN SentencesFrom(items, i + 1, Append(acc, <<>>))
    ELSE LET a == Len(acc)
             b == Len(acc[a]) + 1
         IN  SentencesFrom(items, i + 1,
                           [acc EXCEPT ![a] = Append(@, Words(a, b, items[i]))])

\* [split_into_sentences(section_text) for section_text in
\* split_into_sections(text)]: the text before the first header is a section,
\* and every header starts one
SectionSentences(items) == SentencesFrom(items, 1, <<<<>>>>)

RECURSIVE JoinWords(_)
\* ' '.join(parts).split()
JoinWords(parts) ==
    IF parts = <<>> THEN <<>> ELSE Head(parts) \o JoinWords(Tail(parts))

\* word_count(text)
word_count(words) == Len(words)

\* all_words[-n:]
LastWords(all_words, n) ==
    IF n = 0 THEN all_words
    ELSE SubSeq(all_words, Greatest({1, Len(all_words) - n + 1}), Len(all_words))

CarriesLastWord(all_words) == LastWords(all_words, 1)

CarriesNothing(all_words) == <<>>

\* overlap_words
OverlapWords(all_words) ==
    IF Len(all_words) > overlap THEN LastWords(all_words, overlap) ELSE all_words

KeepsAny(chunk_str) == TRUE

\* word_count(chunk_str) >= min_words
KeepsOverflow(chunk_str) == word_count(chunk_str) >= min_words

KeepsFinalStrict(chunk_str) == word_count(chunk_str) >= min_words

\* word_count(chunk_str) >= min_words - 10
KeepsFinal(chunk_str) == word_count(chunk_str) >= min_words - 10

CountsSentenceOnly(overlap_words, sentence) == word_count(sentence)

\* current_word_count = len(overlap_words) + sentence_words
ResetCount(overlap_words, sentence) == Len(overlap_words) + word_count(sentence)

StaleBuffer(old) == old

\* current_chunk_sentences = []
FreshBuffer(old) == <<>>

InitChunk ==
    /\ ch_pc = "call"
    /\ ch_text \in Texts({0} \cup SentenceWords, MaxItems)
    /\ chunk_size \in ChunkSizes
    /\ overlap \in Overlaps
    /\ min_words \in MinWords
    /\ sections = <<>>
    /\ sec_i = 0
    /\ sentences = <<>>
    /\ sent_i = 0
    /\ section_chunks = <<>>
    /\ current_chunk_sentences = <<>>
    /\ current_word_count = 0
    /\ all_chunks = <<>>
    /\ ch_result = <<>>
    /\ carry_in = 0
    /\ closes = <<>>
    /\ exIdle
    /\ ctIdle
    /\ ssIdle
    /\ seIdle
    /\ inIdle

chParams == <<ch_text, chunk_size, overlap, min_words>>

\* if not text: return []
ReturnEmpty ==
    /\ ch_pc = "call"
    /\ ch_text = <<>>
    /\ ch_pc' = "done"
    /\ ch_result' = <<>>
    /\ UNCHANGED <<chParams, sections, sec_i, sentences, sent_i, section_chunks,
                   current_chunk_sentences, current_word_count, all_chunks,
                   carry_in, closes, exVars, ctVars, ssVars, seVars, inVars>>

\* sections = split_into_sections(text), which raises re.error on the
\* interpreters that reject its pattern
Split(accepted) ==
    /\ ch_pc = "call"
    /\ ch_text # <<>>
    /\ IF accepted
       THEN /\ sections' = SectionSentences(ch_text)
            /\ ch_pc' = "section"
       ELSE /\ ch_pc' = "raised"
            /\ UNCHANGED sections
    /\ UNCHANGED <<chParams, sec_i, sentences, sent_i, section_chunks,
                   current_chunk_sentences, current_word_count, all_chunks,
                   ch_result, carry_in, closes, exVars, ctVars, ssVars, seVars, inVars>>

\* a section without sentences: continue
SkipSection ==
    /\ ch_pc = "section"
    /\ sec_i < Len(sections)
    /\ sections[sec_i + 1] = <<>>
    /\ sec_i' = sec_i + 1
    /\ sentences' = <<>>
    /\ UNCHANGED <<ch_pc, chParams, sections, sent_i, section_chunks,
                   current_chunk_sentences, current_word_count, all_chunks,
                   ch_result, carry_in, closes, exVars, ctVars, ssVars, seVars, inVars>>

\* a section with sentences: the buffer and the counter start afresh
StartSection ==
    /\ ch_pc = "section"
    /\ sec_i < Len(sections)
    /\ sections[sec_i + 1] # <<>>
    /\ sec_i' = sec_i + 1
    /\ sentences' = sections[sec_i + 1]
    /\ sent_i' = 0
    /\ section_chunks' = <<>>
    /\ current_chunk_sentences' = FreshBuffer(current_chunk_sentences)
    /\ current_word_count' = 0
    /\ carry_in' = 0
    /\ ch_pc' = "sentence"
    /\ UNCHANGED <<chParams, sections, all_chunks, ch_result, closes,
                   exVars, ctVars, ssVars, seVars, inVars>>

OverflowsEmptyToo(sentence) ==
    current_word_count + word_count(sentence) > chunk_size

\* the overflow test on the next sentence
Overflows(sentence) ==
    /\ current_word_count + word_count(sentence) > chunk_size
    /\ current_chunk_sentences # <<>>

\* the sentence does not fit: the buffer is closed, and the next one starts
\* with the overlap and the sentence
CloseOnOverflow ==
    /\ ch_pc = "sentence"
    /\ sent_i < Len(sentences)
    /\ Overflows(sentences[sent_i + 1])
    /\ LET sentence == sentences[sent_i + 1]
           chunk_str == JoinWords(current_chunk_sentences)
           overlap_words == OverlapWords(chunk_str)
       IN  /\ section_chunks' =
                  IF KeepsOverflow(chunk_str) THEN Append(section_chunks, chunk_str)
                  ELSE section_chunks
           /\ current_chunk_sentences' = <<overlap_words, sentence>>
           /\ current_word_count' = ResetCount(overlap_words, sentence)
           /\ carry_in' = Len(overlap_words)
           /\ closes' = Append(closes,
                  [sec |-> sec_i, kind |-> "overflow", kept |-> KeepsOverflow(chunk_str),
                   words |-> chunk_str, carried |-> carry_in])
    /\ sent_i' = sent_i + 1
    /\ UNCHANGED <<ch_pc, chParams, sections, sec_i, sentences, all_chunks,
                   ch_result, exVars, ctVars, ssVars, seVars, inVars>>

\* the sentence fits, or the buffer is empty
AppendSentence ==
    /\ ch_pc = "sentence"
    /\ sent_i < Len(sentences)
    /\ ~Overflows(sentences[sent_i + 1])
    /\ current_chunk_sentences' = Append(current_chunk_sentences, sentences[sent_i + 1])
    /\ current_word_count' = current_word_count + word_count(sentences[sent_i + 1])
    /\ sent_i' = sent_i + 1
    /\ UNCHANGED <<ch_pc, chParams, sections, sec_i, sentences, section_chunks,
                   all_chunks, ch_result, carry_in, closes, exVars, ctVars, ssVars, seVars, inVars>>

\* the sentences are exhausted: the last chunk, and all_chunks.extend
EndSection ==
    /\ ch_pc = "sentence"
    /\ sent_i = Len(sentences)
    /\ LET chunk_str == JoinWords(current_chunk_sentences)
           keep == current_chunk_sentences # <<>> /\ KeepsFinal(chunk_str)
           last_chunks == IF keep THEN Append(section_chunks, chunk_str)
                          ELSE section_chunks
       IN  /\ section_chunks' = last_chunks
           /\ all_chunks' = all_chunks \o last_chunks
           /\ closes' =
                  IF current_chunk_sentences = <<>> THEN closes
                  ELSE Append(closes,
                           [sec |-> sec_i, kind |-> "final", kept |-> keep,
                            words |-> chunk_str, carried |-> carry_in])
    /\ ch_pc' = "section"
    /\ UNCHANGED <<chParams, sections, sec_i, sentences, sent_i,
                   current_chunk_sentences, current_word_count, ch_result,
                   carry_in, exVars, ctVars, ssVars, seVars, inVars>>

\* return all_chunks
ReturnChunks ==
    /\ ch_pc = "section"
    /\ sec_i = Len(sections)
    /\ ch_result' = all_chunks
    /\ ch_pc' = "done"
    /\ UNCHANGED <<chParams, sections, sec_i, sentences, sent_i, section_chunks,
                   current_chunk_sentences, current_word_count, all_chunks,
                   carry_in, closes, exVars, ctVars, ssVars, seVars, inVars>>

NextChunk ==
    \/ ReturnEmpty
    \/ \E accepted \in BOOLEAN : Split(accepted)
    \/ SkipSection
    \/ StartSection
    \/ CloseOnOverflow
    \/ AppendSentence
    \/ EndSection
    \/ ReturnChunks

SpecChunk == InitChunk /\ [][NextChunk]_vars

\* ------------------------------------------------------------------------
\* semantic_search and format_results (src/src/search.py), search_similar
\* (src/src/db.py), embed_query (src/src/embedder.py)
\* ------------------------------------------------------------------------

\* the greatest top_k of a search
MaxTopK == 3

\* if len(fragment_display) > 500
DISPLAY_LIMIT == 500

\* fragment_display[:497]
DISPLAY_KEEP == 497

DecimalDigits == <<"0", "1", "2", "3", "4", "5", "6", "7", "8", "9">>

RECURSIVE Decimal(_)
\* str(n) of a natural number
Decimal(n) ==
    IF n < 10 THEN <<DecimalDigits[n + 1]>>
    ELSE Append(Decimal(n \div 10), DecimalDigits[(n % 10) + 1])

Abs(n) == IF n < 0 THEN 0 - n ELSE n

\* mag in units of 1/unit rounded to a whole number, a tie to the even one
RoundHalfEven(mag, unit) ==
    LET q == mag \div unit
        r == mag % unit
    IN  IF 2 * r < unit THEN q
        ELSE IF 2 * r > unit THEN q + 1
        ELSE IF q % 2 = 0 THEN q ELSE q + 1

\* round(float(score), 4): a score is a whole number of 1/100000; the result
\* is a sign and a whole number of 1/10000 (the sign is kept by a zero)
Round4(score) == [neg |-> score < 0, mag |-> RoundHalfEven(Abs(score), 10)]

\* the value of a rounded score, in 1/10000
Value(r) == IF r.neg THEN 0 - r.mag ELSE r.mag

\* f"{score:.2f}"
Format2f(r) ==
    LET h == RoundHalfEven(r.mag, 100)
    IN  (IF r.neg THEN <<"-">> ELSE <<>>)
            \o Decimal(h \div 100)
            \o <<".", DecimalDigits[((h \div 10) % 10) + 1], DecimalDigits[(h % 10) + 1]>>

\* the fragments stored: "[Source: a] ...", short, of two lines, and of 500
\* and 501 characters
SourceTag == <<"[", "S", "o", "u", "r", "c", "e", ":", " ", "a", "]", " ">>

Filler(n) == [i \in 1..n |-> DecimalDigits[(i % 10) + 1]]

FragmentShort == SourceTag \o <<"d", "o", "s", "e", " ", "5", " ", "p", "p", "m">>

FragmentTwoLines == SourceTag \o <<"d", "o", "s", "e", "\n", "5", " ", "p", "p", "m">>

FragmentAtLimit == SourceTag \o Filler(DISPLAY_LIMIT - Len(SourceTag))

FragmentOverLimit == SourceTag \o Filler(DISPLAY_LIMIT + 1 - Len(SourceTag))

\* the rows that the table embeddings may hold: (id, id_document,
\* texte_fragment) and the cosine distance of vecteur to the query vector, in
\* 1/100000. Two rows are at the same distance; the scores of the others
\* differ in the fifth decimal, are a tie of round(, 4) or of .2f (ties that
\* binary floating point represents exactly), or are negative.
Rows ==
    <<[id |-> 1, id_document |-> 1, texte_fragment |-> FragmentShort, distance |-> 8766],
      [id |-> 2, id_document |-> 1, texte_fragment |-> FragmentTwoLines, distance |-> 8764],
      [id |-> 3, id_document |-> 2, texte_fragment |-> FragmentAtLimit, distance |-> 8766],
      [id |-> 4, id_document |-> 2, texte_fragment |-> FragmentOverLimit, distance |-> 87500],
      [id |-> 5, id_document |-> 3, texte_fragment |-> FragmentShort, distance |-> 96875],
      [id |-> 6, id_document |-> 3, texte_fragment |-> FragmentTwoLines, distance |-> 150000]>>

\* 1 - (vecteur <=> query), in 1/100000
similarity_score(id) == 100000 - Rows[id].distance

\* the questions: empty, of white space, and not
Questions == {<<>>, <<" ">>, <<"\n", "\t">>, <<"q">>, <<" ", "q", " ">>}

AnyOrder(ids) == TRUE

\* ORDER BY vecteur <=> query ASC
OrderedByDistance(ids) ==
    \A i, j \in 1..Len(ids) : i < j => Rows[ids[i]].distance <= Rows[ids[j]].distance

\* what the SELECT may return: LIMIT k rows of the table, the nearest ones,
\* in the order of the distance; rows at the same distance in any order
Selections(tab, k) ==
    LET n == IF Cardinality(tab) < k THEN Cardinality(tab) ELSE k
    IN  {ids \in [1..n -> tab] :
            /\ \A i, j \in 1..n : i # j => ids[i] # ids[j]
            /\ OrderedByDistance(ids)
            /\ \A id \in tab : (\A i \in 1..n : ids[i] # id) =>
                   \A i \in 1..n : Rows[ids[i]].distance <= Rows[id].distance}

\* the tuple of a row that cur.fetchall() returns
Fetched(id) == <<Rows[id].id, Rows[id].id_document, Rows[id].texte_fragment, similarity_score(id)>>

BlankIfEmpty(q) == q = <<>>

\* not question or not question.strip()
Blank(q) == q = <<>> \/ Strip(q) = <<>>

\* enumerate(raw_results, start=1)
Rank(i) == i

\* the loop that turns raw_results into ranked dictionaries
Ranked(raw) ==
    [i \in 1..Len(raw) |->
        [rank |-> Rank(i), doc_id |-> raw[i][2], fragment |-> raw[i][3],
         score |-> Round4(raw[i][4])]]

FragmentDisplayWhole(fragment) == fragment

\* fragment_display
FragmentDisplay(fragment) ==
    IF Len(fragment) > DISPLAY_LIMIT
    THEN SubSeq(fragment, 1, DISPLAY_KEEP) \o <<".", ".", ".">>
    ELSE fragment

ResultLine(rank) == <<"R", EACUTE, "s", "u", "l", "t", "a", "t", " ">> \o Decimal(rank)

TextLine(display) == <<"T", "e", "x", "t", "e", " ", ":", " ", "\"">> \o display \o <<"\"">>

ScoreLine(score) == <<"S", "c", "o", "r", "e", " ", ":", " ">> \o Format2f(score)

\* part
Part(res) ==
    ResultLine(res.rank) \o <<"\n">>
        \o TextLine(FragmentDisplay(res.fragment)) \o <<"\n">>
        \o ScoreLine(res.score)

NoResults ==
    <<"A", "u", "c", "u", "n", " ", "r", EACUTE, "s", "u", "l", "t", "a", "t", " ",
      "t", "r", "o", "u", "v", EACUTE, ".">>

\* '\n\n'.join(output_parts)
JoinParts(parts) == Join(parts)

format_results(results) ==
    IF results = <<>> THEN NoResults
    ELSE JoinParts([i \in 1..Len(results) |-> Part(results[i])])

InitSearch ==
    /\ se_pc = "call"
    /\ question \in Questions
    /\ top_k \in 0..MaxTopK
    /\ table \in SUBSET (1..Len(Rows))
    /\ query_vector = <<>>
    /\ raw_results = <<>>
    /\ se_result = <<>>
    /\ formatted = <<>>
    /\ displayed = <<>>
    /\ embed_calls = 0
    /\ store_calls = 0
    /\ se_failed = {}
    /\ exIdle
    /\ ctIdle
    /\ ssIdle
    /\ chIdle
    /\ inIdle

seInputs == <<question, top_k, table>>

\* semantic_search returns res
ReturnResults(res) ==
    /\ se_result' = res
    /\ se_pc' = "done"

\* the test of the question
Validate ==
    /\ se_pc = "call"
    /\ IF Blank(question)
       THEN ReturnResults(<<>>)
       ELSE se_pc' = "embed" /\ UNCHANGED se_result
    /\ UNCHANGED <<seInputs, query_vector, raw_results, formatted, displayed,
                   embed_calls, store_calls, se_failed, exVars, ctVars, ssVars, chVars, inVars>>

\* query_vector = embed_query(question): the vector, or the empty list for a
\* blank question and when _model.encode raises
EmbedQuery(encoded) ==
    /\ se_pc = "embed"
    /\ embed_calls' = embed_calls + 1
    /\ IF question # <<>> /\ Strip(question) # <<>> /\ encoded
       THEN /\ query_vector' = <<"v">>
            /\ se_pc' = "connect"
            /\ UNCHANGED <<se_result, se_failed>>
       ELSE /\ query_vector' = <<>>
            /\ se_failed' = se_failed \cup {"embed"}
            /\ ReturnResults(<<>>)
    /\ UNCHANGED <<seInputs, raw_results, formatted, displayed, store_calls,
                   exVars, ctVars, ssVars, chVars, inVars>>

\* search_similar(query_vector, top_k) up to conn.cursor(): get_connection
\* raises psycopg.Error again, outside the try of search_similar
Connect(connected) ==
    /\ se_pc = "connect"
    /\ store_calls' = store_calls + 1
    /\ IF connected
       THEN se_pc' = "execute" /\ UNCHANGED se_failed
       ELSE se_pc' = "raised" /\ se_failed' = se_failed \cup {"connect"}
    /\ UNCHANGED <<seInputs, query_vector, raw_results, se_result, formatted,
                   displayed, embed_calls, exVars, ctVars, ssVars, chVars, inVars>>

\* cur.execute and cur.fetchall: the rows, or [] on psycopg.Error
Execute(executed) ==
    /\ se_pc = "execute"
    /\ IF executed
       THEN /\ \E ids \in Selections(table, top_k) :
                  raw_results' = [i \in 1..Len(ids) |-> Fetched(ids[i])]
            /\ UNCHANGED se_failed
       ELSE /\ raw_results' = <<>>
            /\ se_failed' = se_failed \cup {"execute"}
    /\ se_pc' = "rank"
    /\ UNCHANGED <<seInputs, query_vector, se_result, formatted, displayed,
                   embed_calls, store_calls, exVars, ctVars, ssVars, chVars, inVars>>

\* the rest of semantic_search: no results, or the ranked results
RankResults ==
    /\ se_pc = "rank"
    /\ ReturnResults(IF raw_results = <<>> THEN <<>> ELSE Ranked(raw_results))
    /\ UNCHANGED <<seInputs, query_vector, raw_results, formatted, displayed,
                   embed_calls, store_calls, se_failed, exVars, ctVars, ssVars, chVars, inVars>>

\* format_results(results) on the results of semantic_search
FormatResults ==
    /\ se_pc = "done"
    /\ formatted' = format_results(se_result)
    /\ displayed' = [i \in 1..Len(se_result) |-> FragmentDisplay(se_result[i].fragment)]
    /\ se_pc' = "shown"
    /\ UNCHANGED <<seInputs, query_vector, raw_results, se_result, embed_calls,
                   store_calls, se_failed, exVars, ctVars, ssVars, chVars, inVars>>

NextSearch ==
    \/ Validate
    \/ \E encoded \in BOOLEAN : EmbedQuery(encoded)
    \/ \E connected \in BOOLEAN : Connect(connected)
    \/ \E executed \in BOOLEAN : Execute(executed)
    \/ RankResults
    \/ FormatResults

SpecSearch == InitSearch /\ [][NextSearch]_vars

\* ------------------------------------------------------------------------
\* ingest_all_pdfs (src/src/ingest.py), run after run on one store
\* ------------------------------------------------------------------------

\* the number of sources there are
MaxDocs == 2

\* the sources, numbered in the order of their paths
Sources == 1..MaxDocs

\* a first run and a later run
Runs == {1, 2}

\* the directories of the runs
Directories == [Runs -> SUBSET Sources]

\* discover_pdfs(pdf_dir): the paths of the directory, sorted
discover_pdfs(dir) ==
    CHOOSE f \in [1..Cardinality(dir) -> dir] :
        \A i, j \in 1..Cardinality(dir) : i < j => f[i] < f[j]

\* the number of chunks chunk_text makes of the text of a source, when it
\* makes any
ChunksOf(source) == source

\* the rows of the table after insert_chunks(doc, chunks, embeddings) has
\* committed n chunks of a source in run r; id is the SERIAL key
ReplaceRows(rows, doc, source, n, r) ==
    LET kept == SelectSeq(rows, LAMBDA row : row.source # source)
    IN  kept \o [k \in 1..n |->
                   [id |-> Len(rows) + k, id_document |-> doc,
                    source |-> source, run |-> r]]

insert_chunks(rows, doc, source, n, r) ==
    rows \o [k \in 1..n |->
               [id |-> Len(rows) + k, id_document |-> doc,
                source |-> source, run |-> r]]

\* the place of the document taken in hand after document i of n has
\* failed
AbortBatch(i, n) == n + 1

AfterFailure(i, n) == i + 1

\* what ingest_all_pdfs returns
Summary(processed, skipped, failed, total) ==
    [processed |-> processed, skipped |-> skipped, failed |-> failed,
     total_chunks |-> total]

InitIngest ==
    /\ exIdle
    /\ ctIdle
    /\ ssIdle
    /\ chIdle
    /\ seIdle
    /\ in_pc = "call"
    /\ run = 1
    /\ dirs \in Directories
    /\ pdf_files = <<>>
    /\ doc_id = 0
    /\ chunks = 0
    /\ embeddings = 0
    /\ pdfs_processed = 0
    /\ pdfs_skipped = 0
    /\ failed_pdfs = <<>>
    /\ total_chunks_inserted = 0
    /\ summary = <<>>
    /\ failed_file = <<>>
    /\ db_rows = <<>>
    /\ attempts = <<>>
    /\ inserted = {}
    /\ classified = {}

\* the document id of the document at a place of pdf_files
DocumentIdFromZero(place) == place - 1

DocumentId(place) == place

\* the test of the vectors embed_texts returned for n_chunks chunks
Rejected(n_vectors, n_chunks) == n_vectors = 0 \/ n_vectors # n_chunks

\* the table after conn.rollback(): the rows written since the connection
\* was opened are gone
KeepWritten(rows, written) == rows \o written

rollback(rows, written) == rows

\* failed_pdfs.append(filename)
NotListed(list, filename) == list

Listed(list, filename) == Append(list, filename)

inStore == <<dirs, failed_file, db_rows, inserted>>

\* the history after the work on the document in hand has ended
Classified(class) ==
    classified \cup {[run |-> run, source |-> pdf_files[doc_id],
                      class |-> class, stage |-> in_pc]}

\* the end of the work on one document: the loop goes on with the next
NextDocument ==
    /\ doc_id' = doc_id + 1
    /\ in_pc' = IF doc_id' > Len(pdf_files) THEN "report" ELSE "extract"

\* the document in hand is skipped without being counted
SkipUncounted ==
    /\ classified' = Classified("skipped")
    /\ NextDocument
    /\ UNCHANGED <<pdfs_processed, pdfs_skipped, failed_pdfs,
                   total_chunks_inserted>>

\* the document in hand is counted as skipped
SkipDocument ==
    /\ pdfs_skipped' = pdfs_skipped + 1
    /\ classified' = Classified("skipped")
    /\ NextDocument
    /\ UNCHANGED <<pdfs_processed, failed_pdfs, total_chunks_inserted>>

\* the document in hand is listed as failed
FailDocument ==
    /\ failed_pdfs' = Listed(failed_pdfs, pdf_files[doc_id])
    /\ classified' = Classified("failed")
    /\ doc_id' = AfterFailure(doc_id, Len(pdf_files))
    /\ in_pc' = IF doc_id' > Len(pdf_files) THEN "report" ELSE "extract"
    /\ UNCHANGED <<pdfs_processed, pdfs_skipped, total_chunks_inserted>>

\* init_db(): the schema is created, or the error of the store leaves
\* ingest_all_pdfs
InitDb(created) ==
    /\ in_pc = "call"
    /\ in_pc' = IF created THEN "discover" ELSE "raised"
    /\ UNCHANGED <<run, pdf_files, doc_id, chunks, embeddings, pdfs_processed,
                   pdfs_skipped, failed_pdfs, total_chunks_inserted, summary,
                   attempts, classified, inStore,
                   exVars, ctVars, ssVars, chVars, seVars>>

\* discover_pdfs, and the return when there is nothing to ingest
Discover ==
    /\ in_pc = "discover"
    /\ pdf_files' = discover_pdfs(dirs[run])
    /\ IF pdf_files' = <<>>
       THEN /\ summary' = Summary(0, 0, 0, 0)
            /\ in_pc' = "done"
            /\ UNCHANGED doc_id
       ELSE /\ in_pc' = "extract"
            /\ doc_id' = 1
            /\ UNCHANGED summary
    /\ UNCHANGED <<run, chunks, embeddings, pdfs_processed, pdfs_skipped,
                   failed_pdfs, total_chunks_inserted, attempts, classified,
                   inStore, exVars, ctVars, ssVars, chVars, seVars>>

\* one document is taken in hand: extract_pdf gives a text, a text of fewer
\* than 50 characters, or raises
Extract(outcome) ==
    /\ in_pc = "extract"
    /\ attempts' = Append(attempts, pdf_files[doc_id])
    /\ CASE outcome = "text" ->
              /\ in_pc' = "chunk"
              /\ UNCHANGED <<doc_id, pdfs_processed, pdfs_skipped, failed_pdfs,
                             total_chunks_inserted, classified>>
         [] outcome = "short" -> SkipDocument
         [] outcome = "error" -> FailDocument
    /\ UNCHANGED <<run, pdf_files, chunks, embeddings, summary, inStore,
                   exVars, ctVars, ssVars, chVars, seVars>>

\* chunk_text gives chunks, no chunk, or raises
Chunk(outcome) ==
    /\ in_pc = "chunk"
    /\ CASE outcome = "chunks" ->
              /\ chunks' = ChunksOf(pdf_files[doc_id])
              /\ in_pc' = "embed"
              /\ UNCHANGED <<doc_id, pdfs_processed, pdfs_skipped, failed_pdfs,
                             total_chunks_inserted, classified>>
         [] outcome = "none" ->
              /\ chunks' = 0
              /\ SkipDocument
         [] outcome = "error" ->
              /\ FailDocument
              /\ UNCHANGED chunks
    /\ UNCHANGED <<run, pdf_files, embeddings, summary, attempts, inStore,
                   exVars, ctVars, ssVars, chVars, seVars>>

\* embed_texts gives n_vectors vectors: one a chunk, none when the model
\* failed, or another number
Embed(n_vectors) ==
    /\ in_pc = "embed"
    /\ n_vectors <= chunks + 1
    /\ embeddings' = n_vectors
    /\ IF Rejected(n_vectors, chunks)
       THEN FailDocument
       ELSE /\ in_pc' = "insert"
            /\ UNCHANGED <<doc_id, pdfs_processed, pdfs_skipped, failed_pdfs,
                           total_chunks_inserted, classified>>
    /\ UNCHANGED <<run, pdf_files, chunks, summary, attempts, inStore,
                   exVars, ctVars, ssVars, chVars, seVars>>

\* insert_chunks commits the rows of the document, or raises: on the
\* numbers of chunks and vectors, on the connection, or on an error of the
\* store after some of the rows were written
Insert(outcome) ==
    /\ in_pc = "insert"
    /\ IF embeddings # chunks \/ outcome = "connect_error"
       THEN /\ FailDocument
            /\ UNCHANGED <<db_rows, inserted>>
       ELSE LET rows == insert_chunks(db_rows, DocumentId(doc_id),
                                      pdf_files[doc_id], chunks, run)
            IN  IF outcome = "stored"
                THEN /\ db_rows' = rows
                     /\ inserted' = inserted \cup {<<run, pdf_files[doc_id]>>}
                     /\ pdfs_processed' = pdfs_processed + 1
                     /\ total_chunks_inserted' = total_chunks_inserted + chunks
                     /\ classified' = Classified("processed")
                     /\ NextDocument
                     /\ UNCHANGED <<pdfs_skipped, failed_pdfs>>
                ELSE /\ \E written \in 0..chunks :
                            db_rows' =
                                rollback(db_rows,
                                         SubSeq(rows, Len(db_rows) + 1,
                                                Len(db_rows) + written))
                     /\ FailDocument
                     /\ UNCHANGED inserted
    /\ UNCHANGED <<run, dirs, pdf_files, chunks, embeddings, summary,
                   failed_file, attempts,
                   exVars, ctVars, ssVars, chVars, seVars>>

\* the end of ingest_all_pdfs: failed_pdfs.txt and the summary
Report ==
    /\ in_pc = "report"
    /\ failed_file' = IF failed_pdfs # <<>> THEN failed_pdfs ELSE failed_file
    /\ summary' = Summary(pdfs_processed, pdfs_skipped, Len(failed_pdfs),
                          total_chunks_inserted)
    /\ in_pc' = "done"
    /\ UNCHANGED <<run, dirs, pdf_files, doc_id, chunks, embeddings,
                   pdfs_processed, pdfs_skipped, failed_pdfs,
                   total_chunks_inserted, db_rows, attempts, inserted,
                   classified, exVars, ctVars, ssVars, chVars, seVars>>

\* ingest_all_pdfs is called again, on the same store
StartRun ==
    /\ in_pc \in {"done", "raised"}
    /\ run + 1 \in Runs
    /\ run' = run + 1
    /\ in_pc' = "call"
    /\ pdf_files' = <<>>
    /\ doc_id' = 0
    /\ chunks' = 0
    /\ embeddings' = 0
    /\ pdfs_processed' = 0
    /\ pdfs_skipped' = 0
    /\ failed_pdfs' = <<>>
    /\ total_chunks_inserted' = 0
    /\ summary' = <<>>
    /\ attempts' = <<>>
    /\ UNCHANGED <<classified, inStore, exVars, ctVars, ssVars, chVars, seVars>>

NextIngest ==
    \/ \E created \in BOOLEAN : InitDb(created)
    \/ Discover
    \/ \E outcome \in {"text", "short", "error"} : Extract(outcome)
    \/ \E outcome \in {"chunks", "none", "error"} : Chunk(outcome)
    \/ \E n_vectors \in 0..(MaxDocs + 1) : Embed(n_vectors)
    \/ \E outcome \in {"stored", "connect_error", "insert_error"} : Insert(outcome)
    \/ Report
    \/ StartRun

SpecIngest == InitIngest /\ [][NextIngest]_vars

\* ------------------------------------------------------------------------
\* Properties of extract_pdf (checked under Spec)
\* ------------------------------------------------------------------------

\* the places where an exception ends the running strategy
StrategyLevel == {"open", "load", "extract", "finish"}

\* C1: the strategies are invoked in the order 1, 2, 3, each at most once; a
\* strategy is invoked only after every earlier one returned fewer than 100
\* characters; extract_pdf stops before the third strategy only at a
\* strategy that returned at least 100 characters, and then returns that
\* strategy's text.
C1_CascadeOrder ==
    /\ Len(calls) <= 3
    /\ \A i \in 1..Len(calls) : calls[i] = i
    /\ \A i \in 1..Len(calls) : \A j \in 1..(i - 1) :
          j <= Len(outs) /\ Len(outs[j]) < MIN_CHARS_THRESHOLD
    /\ pc = "done" =>
          /\ Len(outs) = Len(calls)
          /\ Len(calls) < 3 => Len(outs[Len(outs)]) >= MIN_CHARS_THRESHOLD
          /\ Len(outs[Len(outs)]) >= MIN_CHARS_THRESHOLD => result = outs[Len(outs)]

\* the first strategy returned some text, too short, and the second enough
C1_Witness ==
    /\ pc = "done"
    /\ calls = <<1, 2>>
    /\ outs[1] # <<>>
    /\ result = outs[2]
    /\ Len(result) >= MIN_CHARS_THRESHOLD

\* C2: no exception leaves extract_pdf; a strategy that raised has returned
\* the empty string, and the next strategy in the order has been tried by
\* the time extract_pdf returns.
C2_NoErrorEscapes ==
    /\ pc # "raised"
    /\ \A e \in errs : e[2] \in StrategyLevel =>
          /\ e[1] <= Len(outs)
          /\ outs[e[1]] = <<>>
          /\ (pc = "done" /\ e[1] < 3) => Len(calls) > e[1]

\* every one of the three strategies raised, and extract_pdf returned
C2_Witness ==
    /\ pc = "done"
    /\ \A l \in 1..3 : \E e \in errs : e[1] = l /\ e[2] \in StrategyLevel

\* C3 (as claimed): when all three strategies returned fewer than 100
\* characters, extract_pdf returns the empty string.
C3_TotalFailureEmpty ==
    (/\ pc = "done"
     /\ Len(outs) = 3
     /\ \A k \in 1..3 : Len(outs[k]) < MIN_CHARS_THRESHOLD) => result = <<>>

\* the OCR strategy has run to its end on a document it could open and
\* whose pages it could all load
OcrRanThrough ==
    /\ layer = 3
    /\ pc \in {"check", "done"}
    /\ \A e \in errs : e[1] = 3 => e[2] \notin {"open", "load"}

C5_Idempotent == ct_stage = "twice" => ct_out2 = ct_out

\* C6: the output of clean_text holds no control character and no two
\* consecutive spaces.
C6_NoControlNoSpaceRun ==
    ct_stage \in {"once", "twice"} =>
        /\ \A k \in 1..Len(ct_out) : ct_out[k] \notin ControlChars
        /\ \A k \in 1..(Len(ct_out) - 1) : ~(ct_out[k] = " " /\ ct_out[k + 1] = " ")

\* an input with a NUL between two blanks, which its removal brings together
C6_Witness ==
    /\ ct_stage = "once"
    /\ ct_in = <<"x", " ", NUL, "\t", "x">>
    /\ ct_out = <<"x", " ", "x">>

\* C24: clean_text collapses every run of three or more newlines to exactly
\* two: its output has no three newline characters in a row.
C24_NoThreeNewlines ==
    ct_stage # "raw" =>
        \A i \in 1..(Len(ct_out) - 2) :
            ~(ct_out[i] = "\n" /\ ct_out[i + 1] = "\n" /\ ct_out[i + 2] = "\n")

\* ------------------------------------------------------------------------
\* Properties of split_into_sections (SpecSections)
\* ------------------------------------------------------------------------

RECURSIVE Concat(_)
Concat(parts) == IF parts = <<>> THEN <<>> ELSE Head(parts) \o Concat(Tail(parts))

RECURSIVE CoversFrom(_, _, _, _)
\* from pos on, txt is the sections from the k-th on, in order, with nothing
\* but white space before, between and after them
CoversFrom(txt, pos, secs, k) ==
    LET p == pos + RunLen(txt, pos, SpaceChars)
    IN  IF k > Len(secs) THEN p = Len(txt) + 1
        ELSE /\ p + Len(secs[k]) - 1 <= Len(txt)
             /\ SubSeq(txt, p, p + Len(secs[k]) - 1) = secs[k]
             /\ CoversFrom(txt, p + Len(secs[k]), secs, k + 1)

\* C7 (as claimed): the sections returned by split_into_sections, concatenated
\* in order, are the input text, no character missing.
C7_ExactPartition == ss_stage = "split" => Concat(ss_sections) = ss_text

\* C7 (amended): the sections returned are in document order and do not
\* overlap, none is empty or begins or ends with white space, and the input
\* text is these sections with only white space before, between and after
\* them; a text of white space only is returned whole as its one section, the
\* empty text gives no section.
C7_PartitionUpToWhitespace ==
    ss_stage = "split" =>
        IF Strip(ss_text) = <<>>
        THEN ss_sections = IF ss_text = <<>> THEN <<>> ELSE <<ss_text>>
        ELSE /\ \A k \in 1..Len(ss_sections) :
                    ss_sections[k] # <<>> /\ Strip(ss_sections[k]) = ss_sections[k]
             /\ CoversFrom(ss_text, 1, ss_sections, 1)

\* a text with a header past its start was split in two or more sections,
\* and white space of it is in none of them
C7_Witness ==
    /\ ss_stage = "split"
    /\ Len(ss_sections) >= 2
    /\ Concat(ss_sections) # ss_text

\* no header pattern matches anywhere in the text
NoHeaderMatches(txt) == \A i \in 1..Len(txt) : MatchHeader(txt, i) = 0

\* C25 (as claimed): for a text in which no header pattern matches,
\* split_into_sections returns exactly one section, the whole text.
C25_WholeTextOneSection ==
    (ss_stage = "split" /\ NoHeaderMatches(ss_text)) => ss_sections = <<ss_text>>

\* C25 (amended): for a non-empty text in which no header pattern matches,
\* split_into_sections, when it returns, returns exactly one section: the
\* text without its leading and trailing white space, or the whole text
\* when it is white space only; the empty text gives no section.
C25_StrippedTextOneSection ==
    (ss_stage = "split" /\ NoHeaderMatches(ss_text)) =>
        ss_sections =
            IF ss_text = <<>> THEN <<>>
            ELSE IF Strip(ss_text) = <<>> THEN <<ss_text>>
            ELSE <<Strip(ss_text)>>

\* C25 witness: a text without header that ends or begins with white space
\* was returned as one section, without that white space.
C25_Witness ==
    /\ ss_stage = "split"
    /\ NoHeaderMatches(ss_text)
    /\ Strip(ss_text) # <<>>
    /\ Strip(ss_text) # ss_text
    /\ ss_sections = <<Strip(ss_text)>>

\* ------------------------------------------------------------------------
\* Properties of chunk_text (SpecChunk)
\* ------------------------------------------------------------------------

\* the chunks returned, in order, each with its section and how it was closed
Returned == SelectSeq(closes, LAMBDA r : r.kept)

\* the i-th returned chunk is neither the first nor the last of its section
Middle(i) ==
    /\ \E j \in 1..(i - 1) : Returned[j].sec = Returned[i].sec
    /\ \E j \in (i + 1)..Len(Returned) : Returned[j].sec = Returned[i].sec

\* the word count of the longest sentence of section a
Longest(a) == Greatest({Len(sections[a][b]) : b \in 1..Len(sections[a])})

\* the last n words of w, all of w if it has fewer
Tail_(w, n) == SubSeq(w, Greatest({1, Len(w) - n + 1}), Len(w))

\* the first n words of w, all of w if it has fewer
Head_(w, n) == SubSeq(w, 1, Least({n, Len(w)}))

WordSet(w) == {w[k] : k \in 1..Len(w)}

C9_ConsecutiveChunksShareWords ==
    ch_pc = "done" =>
        \A i \in 1..(Len(Returned) - 1) :
            Returned[i].sec = Returned[i + 1].sec =>
                WordSet(Tail_(Returned[i].words, overlap))
                    \cap WordSet(Head_(Returned[i + 1].words, overlap)) # {}

\* C9 (amended): every buffer closed after another of the same section,
\* returned or discarded, begins with the last min(overlap_words, W) words of
\* that one, W its word count, when overlap_words >= 1, and with the whole of
\* it when overlap_words is 0; so two consecutive returned chunks of a section
\* overlap in this way when no buffer closed between them was discarded, which
\* is so whenever overlap_words >= min_words.
C9_ClosedBuffersOverlap ==
    \A j \in 1..(Len(closes) - 1) :
        closes[j].sec = closes[j + 1].sec =>
            LET first == closes[j].words
                second == closes[j + 1].words
                tail == IF overlap >= 1 THEN Tail_(first, overlap) ELSE first
            IN  /\ closes[j].kind = "overflow"
                /\ Len(tail) < Len(second)
                /\ Head_(second, Len(tail)) = tail
                /\ (overlap >= min_words /\ closes[j].kept /\ closes[j + 1].kind = "overflow")
                       => closes[j + 1].kept

\* two consecutive returned chunks of a section, closed one after the other
C9_Witness ==
    /\ ch_pc = "done"
    /\ overlap >= 1
    /\ \E j \in 1..(Len(closes) - 1) :
          /\ closes[j].sec = closes[j + 1].sec
          /\ closes[j].kept
          /\ closes[j + 1].kept
          /\ Len(closes[j].words) > overlap

\* the sections of the words of a chunk
SectionsIn(chunk) == {chunk[k][1] : k \in 1..Len(chunk)}

\* C10: the words of a returned chunk, sentences and carried overlap, are all
\* of one section; the buffer and the counter are empty when the sentences of
\* a section begin, hold words of that section only, and the output is the
\* chunks of the sections in section order.
C10_SectionIsolation ==
    /\ \A i \in 1..Len(all_chunks) : Cardinality(SectionsIn(all_chunks[i])) = 1
    /\ \A i, j \in 1..Len(all_chunks) :
          i < j => \A a \in SectionsIn(all_chunks[i]), b \in SectionsIn(all_chunks[j]) : a <= b
    /\ ch_pc = "sentence" =>
          /\ SectionsIn(JoinWords(current_chunk_sentences)) \subseteq {sec_i}
          /\ \A i \in 1..Len(section_chunks) : SectionsIn(section_chunks[i]) = {sec_i}
          /\ current_word_count = Len(JoinWords(current_chunk_sentences))
          /\ sent_i = 0 => current_chunk_sentences = <<>> /\ current_word_count = 0
    /\ ch_pc = "done" =>
          ch_result = [i \in 1..Len(Returned) |-> Returned[i].words]

\* chunks of two sections were returned, the first section left with a
\* buffer that had taken overlap in
C10_Witness ==
    /\ ch_pc = "done"
    /\ \E i, j \in 1..Len(ch_result) : SectionsIn(ch_result[i]) # SectionsIn(ch_result[j])
    /\ \E j \in 1..Len(closes) : closes[j].sec = 1 /\ closes[j].kind = "final" /\ closes[j].carried > 0

\* sentence is in chunk in full, its words in a row
Contains(chunk, sentence) ==
    \E k \in 1..(Len(chunk) - Len(sentence) + 1) :
        SubSeq(chunk, k, k + Len(sentence) - 1) = sentence

\* the sentences of more than target_words words, as <<section, sentence>>
LongSentences ==
    {ab \in {<<a, b>> : a \in 1..Len(sections), b \in 1..MaxItems} :
        /\ ab[2] <= Len(sections[ab[1]])
        /\ Len(sections[ab[1]][ab[2]]) > chunk_size}

Threshold(r) == IF r.kind = "overflow" THEN min_words ELSE min_words - 10

\* C12: a buffer closed by the overflow rule is returned if and only if it
\* has at least min_words words, the last buffer of a section if and only if
\* it has at least min_words - 10 words; the chunks returned are the buffers
\* that reached their threshold, the others are discarded.
C12_Thresholds ==
    /\ \A j \in 1..Len(closes) :
          closes[j].kept <=> Len(closes[j].words) >= Threshold(closes[j])
    /\ ch_pc = "done" =>
          LET passed == SelectSeq(closes, LAMBDA r : Len(r.words) >= Threshold(r))
          IN  ch_result = [i \in 1..Len(passed) |-> passed[i].words]

\* a buffer closed by overflow was discarded, and the last chunk of a section
\* was returned with fewer than min_words words
C12_Witness ==
    /\ ch_pc = "done"
    /\ \E j \in 1..Len(closes) : closes[j].kind = "overflow" /\ ~closes[j].kept
    /\ \E j \in 1..Len(closes) :
          /\ closes[j].kind = "final"
          /\ closes[j].kept
          /\ Len(closes[j].words) < min_words

\* the buffer in hand was started by the overflow rule
Seeded ==
    /\ ch_pc = "sentence"
    /\ closes # <<>>
    /\ closes[Len(closes)].sec = sec_i
    /\ closes[Len(closes)].kind = "overflow"

\* C23: when the overflow rule closes a chunk of W words, the next buffer
\* starts with exactly the last min(overlap_words, W) words of it, for every
\* overlap_words >= 0 (nothing when overlap_words is 0), and the counter is
\* reset to that number plus the word count of the sentence in hand.
C23_CarryIsTail ==
    Seeded =>
        LET closed == closes[Len(closes)].words
            n == Least({overlap, Len(closed)})
        IN  /\ Head(current_chunk_sentences) = Tail_(closed, n)
            /\ Len(Head(current_chunk_sentences)) = n
            /\ carry_in = n
            /\ Len(current_chunk_sentences) = 2 =>
                   current_word_count = n + Len(current_chunk_sentences[2])

\* C27: after every step of the sentence loop current_word_count is the
\* number of words of the buffered sentences joined by single spaces, also
\* when the buffer starts with words carried over.
C27_CounterIsWordCount ==
    current_word_count = word_count(JoinWords(current_chunk_sentences))

\* C27 witness: a sentence was appended to a buffer that started with words
\* carried over.
C27_Witness ==
    /\ Seeded
    /\ carry_in > 0
    /\ Len(current_chunk_sentences) = 3
    /\ current_word_count =
           carry_in + Len(current_chunk_sentences[2]) + Len(current_chunk_sentences[3])

\* the words of the sentences of section a
SectionWords(a) == WordSet(JoinWords(sections[a]))

\* C29: when overlap_words >= min_words, every word of every sentence of a
\* section whose sentences have at least min_words - 10 words in all is in
\* at least one returned chunk, and a buffer closed by the overflow rule
\* with fewer than min_words words is carried over whole into the next one.
C29_NoTextLost ==
    overlap >= min_words =>
        /\ \A j \in 1..(Len(closes) - 1) :
               (closes[j].kind = "overflow" /\ ~closes[j].kept) =>
                   /\ closes[j + 1].sec = closes[j].sec
                   /\ Head_(closes[j + 1].words, Len(closes[j].words)) = closes[j].words
        /\ ch_pc = "done" =>
               \A a \in 1..Len(sections) :
                   Cardinality(SectionWords(a)) >= min_words - 10 =>
                       \A word \in SectionWords(a) :
                           \E i \in 1..Len(ch_result) : word \in WordSet(ch_result[i])

\* C29 witness: a buffer closed by the overflow rule was discarded, its
\* words were returned in a later chunk, and min_words - 10 is positive.
C29_Witness ==
    /\ ch_pc = "done"
    /\ overlap >= min_words
    /\ min_words > 10
    /\ \E j \in 1..Len(closes) :
           /\ closes[j].kind = "overflow"
           /\ ~closes[j].kept
           /\ \E i \in 1..Len(ch_result) :
                  WordSet(closes[j].words) \subseteq WordSet(ch_result[i])

\* ------------------------------------------------------------------------
\* Properties of semantic_search and format_results (SpecSearch)
\* ------------------------------------------------------------------------

\* C13: for an empty question and for one of white space only,
\* semantic_search returns the empty list, and neither embed_query nor
\* search_similar is called.
C13_BlankQuestion ==
    (\A k \in 1..Len(question) : question[k] \in SpaceChars) =>
        /\ embed_calls = 0
        /\ store_calls = 0
        /\ se_pc \in {"call", "done", "shown"}
        /\ se_pc \in {"done", "shown"} => se_result = <<>>

\* semantic_search has returned for a question of white space
C13_Witness ==
    /\ se_pc = "done"
    /\ question = <<"\n", "\t">>
    /\ se_result = <<>>

\* C14 (as claimed): after any failure of the embedder or of the store, the
\* failure to connect included, no exception leaves semantic_search and it
\* returns the empty list.
C14_FailureGivesEmpty ==
    se_failed # {} =>
        /\ se_pc # "raised"
        /\ se_pc \in {"done", "shown"} => se_result = <<>>

\* C15: semantic_search returns at most top_k results, the i-th of rank i and
\* made of the i-th row the store returned; the scores are in [-1, 1] and do
\* not increase with the rank, before and after the rounding to 4 decimals.
C15_RankedResults ==
    se_pc \in {"done", "shown"} =>
        /\ Len(se_result) <= top_k
        /\ \A i \in 1..Len(se_result) :
              /\ se_result[i].rank = i
              /\ se_result[i].doc_id = raw_results[i][2]
              /\ se_result[i].fragment = raw_results[i][3]
              /\ Abs(10 * Value(se_result[i].score) - raw_results[i][4]) <= 5
              /\ Abs(Value(se_result[i].score)) <= 10000
        /\ \A i, j \in 1..Len(se_result) :
              i < j => /\ raw_results[i][4] >= raw_results[j][4]
                       /\ Value(se_result[i].score) >= Value(se_result[j].score)

\* top_k results of a larger table, of decreasing score
C15_Witness ==
    /\ se_pc = "done"
    /\ top_k = 3
    /\ Cardinality(table) > 3
    /\ Len(se_result) = 3
    /\ Value(se_result[1].score) > Value(se_result[2].score)
    /\ Value(se_result[2].score) > Value(se_result[3].score)

\* the number of newlines of a text
NewlinesIn(s) == Cardinality({i \in 1..Len(s) : s[i] = "\n"})

\* the lines of a text
SplitLines(s) ==
    LET nl == {i \in 1..Len(s) : s[i] = "\n"}
        at(k) == IF k = 0 THEN 0
                 ELSE IF k > Cardinality(nl) THEN Len(s) + 1
                 ELSE CHOOSE p \in nl : Cardinality({q \in nl : q < p}) = k - 1
    IN  [k \in 1..(Cardinality(nl) + 1) |-> SubSeq(s, at(k - 1) + 1, at(k) - 1)]

\* C16 (as claimed): N >= 1 results are rendered as N blocks of three lines
\* (result line with the rank, text line, score line) in input order, with
\* one blank line between blocks and none before or after; no result, as
\* 'Aucun résultat trouvé.'.
C16_ThreeLineBlocks ==
    se_pc = "shown" =>
        IF se_result = <<>> THEN formatted = NoResults
        ELSE LET L == SplitLines(formatted)
                 N == Len(se_result)
             IN  /\ Len(L) = 4 * N - 1
                 /\ \A i \in 1..N :
                       /\ L[4 * i - 3] = ResultLine(se_result[i].rank)
                       /\ L[4 * i - 2] = TextLine(displayed[i])
                       /\ L[4 * i - 1] = ScoreLine(se_result[i].score)
                       /\ i < N => L[4 * i] = <<>>

\* C17: a fragment of more than 500 characters is displayed as its first 497
\* characters and '...', 500 characters in all; a fragment of 500 characters
\* or fewer is displayed unchanged.
C17_Truncation ==
    se_pc = "shown" =>
        \A i \in 1..Len(se_result) :
            LET f == se_result[i].fragment
                d == displayed[i]
            IN  /\ Len(d) <= 500
                /\ Len(f) > 500 =>
                       /\ Len(d) = 500
                       /\ SubSeq(d, 1, 497) = SubSeq(f, 1, 497)
                       /\ SubSeq(d, 498, 500) = <<".", ".", ".">>
                /\ Len(f) <= 500 => d = f
                /\ NewlinesIn(d) = 0 =>
                       \E k \in 1..Len(SplitLines(formatted)) :
                           SplitLines(formatted)[k] = <<"T", "e", "x", "t", "e", " ", ":", " ", "\"">> \o d \o <<"\"">>

\* a fragment of 500 characters and one of 501 were displayed
C17_Witness ==
    /\ se_pc = "shown"
    /\ \E i, j \in 1..Len(se_result) :
          /\ Len(se_result[i].fragment) = 500
          /\ displayed[i] = se_result[i].fragment
          /\ Len(se_result[j].fragment) = 501
          /\ Len(displayed[j]) = 500


\* ------------------------------------------------------------------------
\* Properties of ingest_all_pdfs (checked under SpecIngest)
\* ------------------------------------------------------------------------

\* the sequence has no element twice
NoDuplicates(seq) ==
    \A i, j \in 1..Len(seq) : i # j => seq[i] # seq[j]

\* the sources of a sequence
Range(seq) == {seq[i] : i \in 1..Len(seq)}

\* C18: a single bad document never aborts the batch: whatever fails while
\* a document is extracted, chunked, embedded or stored, the documents
\* discovered are taken in hand one after the other in the order of
\* discovery, each exactly once, the loop ends only after the last of them,
\* nothing raised by the work on a document leaves ingest_all_pdfs, and a
\* failed document is listed once and not taken in hand again.
C18_BadDocumentNeverAborts ==
    /\ in_pc = "extract" => attempts = SubSeq(pdf_files, 1, doc_id - 1)
    /\ in_pc \in {"chunk", "embed", "insert"} =>
           attempts = SubSeq(pdf_files, 1, doc_id)
    /\ in_pc \in {"report", "done"} => attempts = pdf_files
    /\ in_pc = "raised" => attempts = <<>> /\ pdf_files = <<>>
    /\ NoDuplicates(attempts)
    /\ NoDuplicates(failed_pdfs)
    /\ Range(failed_pdfs) \subseteq Range(attempts)

\* C18 witness: a run is over in which the first document failed and the
\* second one was processed after it.
C18_Witness ==
    /\ in_pc = "done"
    /\ Len(pdf_files) = 2
    /\ failed_pdfs = <<pdf_files[1]>>
    /\ attempts = pdf_files
    /\ <<run, pdf_files[2]>> \in inserted

\* the rows stored for a source by a run
RowsOf(r, source) ==
    {i \in 1..Len(db_rows) : db_rows[i].run = r /\ db_rows[i].source = source}

\* the place of a source in the sorted list of the documents of a run
PlaceIn(r, source) == Cardinality({other \in dirs[r] : other <= source})

\* every insert committed is still in the table, row for row, and no two
\* rows have the same id
NothingReplaced ==
    /\ \A pair \in inserted :
           Cardinality(RowsOf(pair[1], pair[2])) = ChunksOf(pair[2])
    /\ \A i, j \in 1..Len(db_rows) : i # j => db_rows[i].id # db_rows[j].id

\* C19 as stated: re-ingesting a source in a later run adds new rows, nothing
\* is replaced or deduplicated, and the new rows carry a document id
\* different from the one of the rows the earlier run stored for that source.
C19_NewDocumentId ==
    /\ NothingReplaced
    /\ \A i, j \in 1..Len(db_rows) :
           (db_rows[i].source = db_rows[j].source /\ db_rows[i].run < db_rows[j].run)
               => db_rows[i].id_document # db_rows[j].id_document

\* C19 amended: re-ingesting a source in a later run adds new rows, nothing
\* is replaced or deduplicated, and the rows carry as document id the place
\* of the source in the sorted list of the documents that run discovered:
\* the same document id as the rows of the earlier run when the source has
\* the same place in both runs (as when the directory is unchanged), a
\* different one otherwise.
C19_DocumentIdIsPlaceInRun ==
    /\ NothingReplaced
    /\ \A i \in 1..Len(db_rows) :
           db_rows[i].id_document = PlaceIn(db_rows[i].run, db_rows[i].source)
    /\ \A i, j \in 1..Len(db_rows) :
           (db_rows[i].source = db_rows[j].source /\ db_rows[i].run < db_rows[j].run)
               => (db_rows[i].id_document = db_rows[j].id_document
                     <=> PlaceIn(db_rows[i].run, db_rows[i].source)
                           = PlaceIn(db_rows[j].run, db_rows[j].source))

\* C19 witness: a source was stored by both runs over an unchanged
\* directory, and its rows of the later run are new ones with the document
\* id of the earlier ones.
C19_Witness ==
    /\ dirs[1] = dirs[2]
    /\ \E source \in Sources :
           /\ <<1, source>> \in inserted
           /\ <<2, source>> \in inserted
           /\ RowsOf(1, source) # {}
           /\ \A i \in RowsOf(1, source) : \A j \in RowsOf(2, source) :
                  /\ db_rows[i].id # db_rows[j].id
                  /\ db_rows[i].id_document = db_rows[j].id_document

\* C20: ingest_all_pdfs always completes and returns a summary of the
\* processed, skipped and failed counts, whatever fails in the store (schema
\* initialisation included), the extractor, the chunker or the embedder; and
\* when a document failed, the persisted list holds exactly the failed
\* documents.
C20_AlwaysSummary ==
    /\ in_pc # "raised"
    /\ in_pc = "done" =>
           /\ summary = Summary(pdfs_processed, pdfs_skipped, Len(failed_pdfs),
                                total_chunks_inserted)
           /\ pdfs_processed + pdfs_skipped + Len(failed_pdfs) = Len(pdf_files)
           /\ failed_pdfs # <<>> => failed_file = failed_pdfs

\* the documents whose work failed at a stage
FailedAt(stage) == {c \in classified : c.class = "failed" /\ c.stage = stage}

\* the documents of the running run that ended in a class
InClass(class) ==
    {c.source : c \in {d \in classified : d.run = run /\ d.class = class}}

\* C21: a store failure while the chunks of a document are inserted is
\* atomic for that document: none of the rows of that attempt remain in the
\* table, the error does not leave ingest_all_pdfs, the document is listed
\* as failed, and the rows of the other documents are all there.
C21_InsertFailureIsAtomic ==
    /\ \A c \in FailedAt("insert") :
           /\ RowsOf(c.run, c.source) = {}
           /\ c.run = run => c.source \in Range(failed_pdfs)
    /\ in_pc = "raised" => attempts = <<>>
    /\ \A pair \in inserted :
           Cardinality(RowsOf(pair[1], pair[2])) = ChunksOf(pair[2])
    /\ \A i \in 1..Len(db_rows) :
           <<db_rows[i].run, db_rows[i].source>> \in inserted

\* C21 witness: a run is over in which the first document was stored and the
\* insert of the second one failed.
C21_Witness ==
    /\ in_pc = "done"
    /\ Len(pdf_files) = 2
    /\ RowsOf(run, pdf_files[1]) # {}
    /\ failed_pdfs = <<pdf_files[2]>>
    /\ \E c \in FailedAt("insert") : c.run = run /\ c.source = pdf_files[2]

\* C22: when embed_texts returns nothing or a number of vectors other than
\* the number of chunks, the document is listed as failed, no row is stored
\* for it, its chunks are not counted in the total, and the loop goes on
\* with the next document.
C22_EmbeddingFailure ==
    /\ [](\A c \in FailedAt("embed") :
              /\ RowsOf(c.run, c.source) = {}
              /\ c.run = run => c.source \in Range(failed_pdfs))
    /\ [][(in_pc = "embed" /\ Rejected(embeddings', chunks)) =>
              /\ failed_pdfs' = Append(failed_pdfs, pdf_files[doc_id])
              /\ classified' \ classified \subseteq FailedAt("embed")'
              /\ db_rows' = db_rows
              /\ total_chunks_inserted' = total_chunks_inserted
              /\ pdfs_processed' = pdfs_processed
              /\ doc_id' = doc_id + 1
              /\ in_pc' = IF doc_id < Len(pdf_files) THEN "extract" ELSE "report"]_vars

\* C22 witness: a run is over in which the vectors of the first document
\* were rejected and the second document was stored.
C22_Witness ==
    /\ in_pc = "done"
    /\ Len(pdf_files) = 2
    /\ \E c \in FailedAt("embed") : c.run = run /\ c.source = pdf_files[1]
    /\ failed_pdfs = <<pdf_files[1]>>
    /\ RowsOf(run, pdf_files[2]) # {}
    /\ total_chunks_inserted = ChunksOf(pdf_files[2])

\* the sum of the chunk counts of a set of sources
RECURSIVE SumChunks(_)
SumChunks(sources) ==
    IF sources = {} THEN 0
    ELSE LET source == CHOOSE one \in sources : TRUE
         IN  ChunksOf(source) + SumChunks(sources \ {source})

\* C26: within one run the document id used for a file is its place, from
\* 1, in the sorted discovery list, whether or not the files before it were
\* skipped or failed: the ids of the stored documents are distinct and
\* increase in discovery order.
C26_DocumentIdIsPosition ==
    /\ \A i \in 1..Len(db_rows) :
           LET files == discover_pdfs(dirs[db_rows[i].run])
           IN  /\ db_rows[i].id_document \in 1..Len(files)
               /\ files[db_rows[i].id_document] = db_rows[i].source
    /\ \A i, j \in 1..Len(db_rows) :
           db_rows[i].run = db_rows[j].run =>
               /\ db_rows[i].source < db_rows[j].source
                      <=> db_rows[i].id_document < db_rows[j].id_document
               /\ db_rows[i].source = db_rows[j].source
                      <=> db_rows[i].id_document = db_rows[j].id_document

\* C26 witness: the first document of a run was skipped or failed and the
\* second one is stored with document id 2, so that no row of the run has
\* document id 1.
C26_Witness ==
    /\ in_pc = "done"
    /\ Len(pdf_files) = 2
    /\ RowsOf(run, pdf_files[1]) = {}
    /\ RowsOf(run, pdf_files[2]) # {}
    /\ \A i \in RowsOf(run, pdf_files[2]) : db_rows[i].id_document = 2
    /\ \A i \in 1..Len(db_rows) :
           db_rows[i].run = run => db_rows[i].id_document # 1

\* C28: at the end of a run every discovered document is in exactly one of
\* the classes processed, skipped and failed, the three counts of the
\* summary are the sizes of the classes and add up to the number of
\* discovered documents, and total_chunks is the sum of the chunk counts of
\* the processed documents only.
C28_Classification ==
    in_pc = "done" =>
        /\ \A i \in 1..Len(pdf_files) :
               Cardinality({c \in classified :
                               c.run = run /\ c.source = pdf_files[i]}) = 1
        /\ InClass("processed") \cup InClass("skipped") \cup InClass("failed")
               = Range(pdf_files)
        /\ summary.processed = Cardinality(InClass("processed"))
        /\ summary.skipped = Cardinality(InClass("skipped"))
        /\ summary.failed = Cardinality(InClass("failed"))
        /\ summary.processed + summary.skipped + summary.failed = Len(pdf_files)
        /\ summary.total_chunks = SumChunks(InClass("processed"))

\* C28 witness: a run is over in which one document gave no chunk and was
\* skipped and the other one was processed.
C28_Witness ==
    /\ in_pc = "done"
    /\ Len(pdf_files) = 2
    /\ \E c \in classified :
           c.run = run /\ c.class = "skipped" /\ c.stage = "chunk"
    /\ summary.processed = 1
    /\ summary.skipped = 1
    /\ summary.total_chunks > 0

=========================================================================
